---- MODULE Spec2Model ----
(***************************************************************************)
(* Model of zoom-sync: the tray connection scheduler (src/tray/mod.rs,     *)
(* async_tray_app / handle_command / handle_disconnect) on top of the      *)
(* board sessions of boards/zoom65v3 and boards/zoom-tkl-dyna.             *)
(*                                                                         *)
(* The scheduler is one task on a current-thread runtime.  A select!       *)
(* branch handler runs to completion before select! is polled again; the   *)
(* device calls it makes are blocking.  A handler is modelled as the       *)
(* sequence of device operations it performs (plan); an operation is in    *)
(* flight until its result arrives (Exec), so that time can pass and menu  *)
(* clicks can arrive while the handler is blocked in device I/O.           *)
(*                                                                         *)
(* Below the scheduler, SpecSession follows one board session frame by     *)
(* frame (execute: write, then read) through set_time and the media        *)
(* uploads of the three board crates, and SpecDetect applies               *)
(* BoardKind::as_board to the HID devices present.                         *)
(***************************************************************************)
EXTENDS Integers, Sequences, FiniteSets, TLC

(* ------------------------------ bounds -------------------------------- *)
\* commands that may be pending (menu events, dialogs and queued commands)
MaxPending == 1
\* the same, when the user clicks through the screen menu in a burst
MaxBurst == 2
\* chunks of an uploaded media buffer
MaxChunks == 1
\* config.refresh.retry, in clock ticks of the model
RetryPeriod == 1
\* bytes of the short media buffers handed to an upload
MaxLen == 49
\* HID devices present at a time
MaxDevices == 2
\* bytes of the payloads and byte strings handed to the codecs
MaxPayload == 20
\* largest everyday temperature handed to encode_temperature, in degrees
MaxTemp == 60
\* largest everyday download rate handed to DumbFloat16::new, in hundredths
MaxSpeed == 300
\* daemon processes started at a time
MaxProcs == 3

(* ------------------------- boards and capabilities --------------------- *)
NoBoard == "None"
BoardTypes == {"Zoom65v3", "ZoomTklDyna"}
BoardKinds == {"Auto"} \cup BoardTypes
\* the board crates: the two above and zoom75-tiga, which no BoardKind names
SessionTypes == BoardTypes \cup {"Zoom75Tiga"}
\* <<board argument, keyboard owned>>: detected, named, and named but not owned
Setups ==
    {<<"Auto", "Zoom65v3">>, <<"ZoomTklDyna", "ZoomTklDyna">>,
     <<"Zoom65v3", "ZoomTklDyna">>}

\* the capabilities of the trait Board
Caps == {"time", "weather", "system_info", "screen", "image", "gif", "theme"}

\* the board crates whose INFO carries a Capabilities value
Described == {"ZoomTklDyna", "Zoom75Tiga"}

\* INFO.capabilities: the flags that are true
Capabilities(b) ==
    CASE b = "ZoomTklDyna" -> {"theme", "time", "weather", "image", "gif"}
      [] b = "Zoom75Tiga" -> {"theme", "time", "weather", "image", "gif"}

\* accessors of a Tiga family board that also overrides as_screen
As_with_screen(b, cap) ==
    CASE b = "Zoom65v3" ->
            cap \in {"time", "weather", "system_info", "screen", "image", "gif"}
      [] OTHER ->
            cap \in {"time", "weather", "screen", "image", "gif", "theme"}

\* Board::as_time .. as_theme: TRUE iff the accessor returns Some
As(b, cap) ==
    CASE b = "Zoom65v3" ->
            cap \in {"time", "weather", "system_info", "screen", "image", "gif"}
      [] b = "ZoomTklDyna" ->
            cap \in {"time", "weather", "image", "gif", "theme"}
      [] b = "Zoom75Tiga" ->
            cap \in {"time", "weather", "image", "gif", "theme"}
      [] OTHER -> FALSE

\* Board::as_screen_size
as_screen_size(b) == b \in BoardTypes

(* ----------------------------- screen ids ------------------------------ *)
ParseErr == <<"Err", 0>>

\* impl FromStr for ScreenPosition: the position as <<variant, offset>>
FromStr(id) ==
    CASE id = "cpu" -> <<"System", 0>>
      [] id = "gpu" -> <<"System", 1>>
      [] id \in {"download", "d"} -> <<"System", 2>>
      [] id \in {"time", "t"} -> <<"Time", 0>>
      [] id \in {"weather", "w"} -> <<"Time", 1>>
      [] id \in {"meletrix", "m"} -> <<"Logo", 0>>
      [] id \in {"zoom65", "z"} -> <<"Logo", 1>>
      [] id \in {"image", "i"} -> <<"Logo", 2>>
      [] id \in {"gif", "g"} -> <<"Logo", 3>>
      [] id \in {"battery", "b"} -> <<"Battery", 0>>
      [] OTHER -> ParseErr

\* ScreenPosition::to_directions: <<up/down, shift>>
to_directions(pos) ==
    CASE pos[1] = "System" -> <<-2, pos[2]>>
      [] pos[1] = "Time" -> <<-1, pos[2]>>
      [] pos[1] = "Logo" -> <<0, pos[2]>>
      [] OTHER -> <<1, 0>>

Abs(i) == IF i < 0 THEN -i ELSE i

\* Zoom65v3::set_screen: reset_screen, |y| screen_up/down, x screen_switch
SetScreenFrames(id) ==
    LET d == to_directions(FromStr(id)) IN 1 + Abs(d[1]) + d[2]

(* --------------------------- device operations ------------------------- *)
Step(lbl, op, id, n) == [lbl |-> lbl, op |-> op, id |-> id, n |-> n]

\* results of an operation that come before the first byte is written
LocalFailures ==
    {"invalid_screen", "unknown_wmo", "no_time", "no_weather",
     "no_system_info", "media_rejected"}
\* results of an exchange with the device
DeviceFailures == {"rejected", "hid_dev", "hid_other"}
\* the handler is suspended on something that is not the device
Awaiting == {"fetching", "enumerating"}

\* variant: set_screen without id.parse()
Begin_no_parse(b, s) ==
    CASE s.op = "apply_time" /\ ~As(b, "time") -> "no_time"
      [] s.op = "apply_weather" /\ ~As(b, "weather") -> "no_weather"
      [] s.op = "apply_weather" /\ As(b, "weather") -> "fetching"
      [] s.op = "apply_system" /\ ~As(b, "system_info") -> "no_system_info"
      [] s.op = "upload_gif" /\ s.id = "bad" -> "media_rejected"
      [] s.op = "find_input" -> "enumerating"
      [] OTHER -> "none"

\* entry of an operation: the result of the checks made before the first
\* execute(), "none" when the operation goes on to the device
Begin(b, s) ==
    CASE s.op = "apply_time" /\ ~As(b, "time") -> "no_time"
      [] s.op = "apply_weather" /\ ~As(b, "weather") -> "no_weather"
      [] s.op = "apply_weather" /\ As(b, "weather") -> "fetching"
      [] s.op = "apply_system" /\ ~As(b, "system_info") -> "no_system_info"
      [] s.op = "set_screen" /\ FromStr(s.id) = ParseErr -> "invalid_screen"
      [] s.op = "upload_gif" /\ s.id = "bad" -> "media_rejected"
      [] s.op = "find_input" -> "enumerating"
      [] OTHER -> "none"

\* Display of the error the handler sees, as its sequence of words
ErrText(op, r) ==
    LET inner ==
          CASE r = "rejected" -> <<"command", "failed:", "device", "rejected", "command">>
            [] r = "unknown_wmo" -> <<"command", "failed:", "unknown", "WMO", "code">>
            [] r = "hid_dev" -> <<"hid", "error:", "hidapi", "error:", "No", "such", "device">>
            [] r = "hid_other" -> <<"hid", "error:", "hidapi", "error:", "Input/output", "error">>
            [] r = "no_time" -> <<"board", "does", "not", "support", "time">>
            [] r = "no_weather" -> <<"board", "does", "not", "support", "weather">>
            [] r = "no_system_info" -> <<"board", "does", "not", "support", "system", "info">>
            [] OTHER -> <<>>
    IN  CASE op = "apply_weather" /\ r \in DeviceFailures \cup {"unknown_wmo"} ->
                <<"failed", "to", "set", "weather:">> \o inner
          [] op = "apply_system" /\ r \in DeviceFailures ->
                <<"failed", "to", "set", "system", "info:">> \o inner
          [] OTHER -> inner

\* e.to_string().contains("device")
ContainsDevice(msg) == \E i \in DOMAIN msg : msg[i] = "device"

IsErr(r) == r \in LocalFailures \cup DeviceFailures

TickLabels == {"tick_weather", "tick_system", "tick_time"}

\* variant: a periodic handler that disconnects on every error
SessionFatal_any_error(s, r) ==
    s.lbl \in TickLabels /\ IsErr(r)

\* the handler of the finished step calls handle_disconnect
SessionFatal(s, r) ==
    s.lbl \in TickLabels /\ IsErr(r) /\ ContainsDevice(ErrText(s.op, r))

\* outcomes of a device operation on board b: Zoom65v3::execute checks the
\* reply (an unexpected reply panics, a status other than 1,1 is rejected),
\* ZoomTklDyna::execute ignores it
ExecOutcomes(b) ==
    IF b = "Zoom65v3" THEN {"ok", "rejected", "hid_dev", "hid_other", "panic"}
    ELSE {"ok", "hid_dev", "hid_other"}

(* ------------------------------- commands ------------------------------ *)
Cmd(c, id, n) == [c |-> c, id |-> id, n |-> n]

\* screen ids of the items of the screen menu
ScreenInputs == {"meletrix", "zoom65"}

\* menu events of the screen menu, the image picker and Quit
MenuEvents ==
    {Cmd("Quit", "", 0), Cmd("PickImage", "", 0)}
    \cup {Cmd("SetScreen", id, 0) : id \in ScreenInputs}

\* menu events of the settings and of the media menu
SettingsEvents ==
    {Cmd("ToggleWeather", "", 0), Cmd("ToggleSystemInfo", "", 0),
     Cmd("Toggle12HrTime", "", 0), Cmd("ToggleFahrenheit", "", 0),
     Cmd("ClearImage", "", 0), Cmd("ClearGif", "", 0), Cmd("ClearAllMedia", "", 0),
     Cmd("PickGif", "", 0), Cmd("ReloadConfig", "", 0)}

\* menu events of a burst of clicks in the screen menu
BurstEvents == {Cmd("SetScreen", id, 0) : id \in ScreenInputs}

\* menu events of the 12-hour switch
TimeEvents == {Cmd("Toggle12HrTime", "", 0)}

\* menu events that lead to the six board commands
BoardCmdEvents ==
    {Cmd("SetScreen", "meletrix", 0), Cmd("PickImage", "", 0), Cmd("PickGif", "", 0),
     Cmd("ClearImage", "", 0), Cmd("ClearGif", "", 0), Cmd("ClearAllMedia", "", 0)}

\* SetScreen commands, with an id the board parses and one it does not
SetScreenEvents == {Cmd("SetScreen", "zoom65", 0), Cmd("SetScreen", "bogus", 0)}

\* menu events of reactive mode
ReactiveEvents == {Cmd("Quit", "", 0), Cmd("SetScreen", "reactive", 0)}

\* general.initial_screen of the config file: a screen id, or any other text
InitialScreens == {"meletrix", "bogus"}

(* ------------------------- board sessions: frames ----------------------- *)
\* Zoom65v3::upload_image accepts exactly this many bytes
IMAGE_LEN == 36300
\* Zoom65v3::upload_gif rejects buffers of this many bytes or more
GIF_LIMIT == 1013808
\* image.chunks(24) of Zoom65v3::upload_media
CHUNK_65 == 24
\* CHUNK_SIZE of the Tiga family's upload_image
CHUNK_SIZE == 16
\* let mut buf = [0u8; 33]
FRAME_LEN == 33
\* DumbFloat16::MAX_F32 = 655.33997, in units of 0.00001
MAX_F32 == 65533997

TigaFamily == {"ZoomTklDyna", "Zoom75Tiga"}

\* buffer lengths handed to the upload methods
SmallLens == 0..MaxLen
ImageLens == SmallLens \cup {IMAGE_LEN - 1, IMAGE_LEN, IMAGE_LEN + 1}
GifLens == SmallLens \cup {GIF_LIMIT, GIF_LIMIT + 1}

\* slice::chunks(size).count(), and the length of chunk i
chunks(len, size) == (len + size - 1) \div size
chunk_len(len, size, i) == IF len - size * i < size THEN len - size * i ELSE size

Frame(cmd, i, len, data, offset) ==
    [cmd |-> cmd, i |-> i, len |-> len, data |-> data, offset |-> offset]

\* the bytes of a chunk frame the checksum is computed over: buf[3..offset + 2]
crc_span(offset) == (offset + 2) - 3

\* the padding without its outer "% 4": an aligned final chunk gets 4 bytes
padding_no_wrap(len, channel, i) ==
    IF channel = "Gif" /\ i = len \div CHUNK_65
    THEN 4 - ((len % CHUNK_65) % 4)
    ELSE 0

\* padding of chunk i in Zoom65v3::upload_media
padding(len, channel, i) ==
    IF channel = "Gif" /\ i = len \div CHUNK_65
    THEN (4 - ((len % CHUNK_65) % 4)) % 4
    ELSE 0

\* the chunk frame Zoom65v3::upload_media builds for chunk i
chunk_frame(len, channel, i) ==
    LET cl == chunk_len(len, CHUNK_65, i)
        pad == padding(len, channel, i)
    IN  Frame("chunk", ((i \div 256) % 256) * 256 + (i % 256),
              (2 + cl + 4 + pad) % 256, cl, 3 + 2 + cl + pad)

UploadOps == {"upload_image", "upload_gif"}
Channel(op) == IF op = "upload_gif" THEN "Gif" ELSE "Image"

\* the frame a call writes at position p with chunk index i
FrameAt(b, c, p, i) ==
    CASE p = "chunk" -> chunk_frame(c.len, Channel(c.op), i)
      \* image.len() as u32 keeps every length below 2^32
      [] p = "upload_length" -> Frame(p, 0, c.len, 0, 0)
      [] p = "image_chunk" ->
            Frame(p, i % 65536, 0, chunk_len(c.len, CHUNK_SIZE, i), 0)
      [] OTHER -> Frame(p, 0, 0, 0, 0)

NoCall == [op |-> "none", len |-> 0]
Entry(p, r) == [pc |-> p, ret |-> r]

\* upload_gif accepting a buffer of exactly GIF_LIMIT bytes
upload_gif_65_inclusive(len) ==
    IF len > GIF_LIMIT THEN Entry("done", "MediaTooLarge")
    ELSE Entry("upload_start", "none")

\* Zoom65v3::upload_image and upload_gif: the check before upload_media
upload_image_65(len) ==
    IF len # IMAGE_LEN THEN Entry("done", "MediaTooLarge")
    ELSE Entry("upload_start", "none")

upload_gif_65(len) ==
    IF len >= GIF_LIMIT THEN Entry("done", "MediaTooLarge")
    ELSE Entry("upload_start", "none")

\* the Tiga family's upload_image: the chunk loop, then the terminator
upload_image_tiga(len) ==
    IF chunks(len, CHUNK_SIZE) > 0 THEN Entry("image_chunk", "none")
    ELSE Entry("image_end", "none")

\* where a call starts, or what it returns before any frame
Enter(b, op, len) ==
    CASE op = "set_time" -> Entry("set_time", "none")
      [] op = "upload_image" /\ b = "Zoom65v3" -> upload_image_65(len)
      [] op = "upload_gif" /\ b = "Zoom65v3" -> upload_gif_65(len)
      [] OTHER -> upload_image_tiga(len)

\* the position after frame p was acknowledged; "done" when the call returns Ok
upload_media_no_reset(b, c, p, i) ==
    LET n == chunks(c.len, CHUNK_65)
    IN  CASE p = "upload_start" -> "upload_length"
          [] p = "upload_length" -> IF n > 0 THEN "chunk" ELSE "upload_end"
          [] p = "chunk" -> IF i + 1 < n THEN "chunk" ELSE "upload_end"
          [] OTHER -> "done"

AfterFrame(b, c, p, i) ==
    LET n == IF b = "Zoom65v3" THEN chunks(c.len, CHUNK_65)
             ELSE chunks(c.len, CHUNK_SIZE)
    IN  CASE p = "upload_start" -> "upload_length"
          [] p = "upload_length" -> IF n > 0 THEN "chunk" ELSE "upload_end"
          [] p = "chunk" -> IF i + 1 < n THEN "chunk" ELSE "upload_end"
          [] p = "upload_end" -> "reset_screen"
          [] p = "image_chunk" -> IF i + 1 < n THEN "image_chunk" ELSE "image_end"
          [] OTHER -> "done"

ChunkPcs == {"chunk", "image_chunk"}
FramePcs == {"set_time", "upload_start", "upload_length", "chunk", "upload_end",
             "reset_screen", "image_chunk", "image_end", "screen_up",
             "screen_down", "screen_switch"}

\* an acknowledgement: its length (3 stands for 3 or more), whether byte 0
\* echoes the command marker, and the two status bytes
Replies == [len : 0..3, echo : BOOLEAN, s1 : 0..1, s2 : 0..1]

\* Zoom65v3::execute after the read: slice[0] is indexed, then asserted
execute_65(r) ==
    IF r.len = 0 THEN "panic"
    ELSE IF ~r.echo THEN "panic"
    ELSE "ok"

\* the status test every Zoom65v3 method makes on the reply: res[1], res[2]
ack_65(r) ==
    IF r.len < 2 THEN "panic"
    ELSE IF r.s1 # 1 THEN "CommandFailed"
    ELSE IF r.len < 3 THEN "panic"
    ELSE IF r.s2 # 1 THEN "CommandFailed"
    ELSE "ok"

\* what a Zoom65v3 method makes of a reply
Outcome65(r) == IF execute_65(r) = "ok" THEN ack_65(r) ELSE "panic"

(* -------------------------------- state -------------------------------- *)
VARIABLES
    board_kind,          \* argument of run_tray_app
    device,              \* the keyboard the user owns
    loop,                \* "running", "quit" (returned Ok) or "panicked"
    board,               \* Option<Box<dyn Board>> of the loop
    local_b,             \* the handle `b` inside the connect handler
    connection,          \* state.connection
    current_screen,      \* state.current_screen
    initial_screen,      \* state.config.general.initial_screen
    use_12hr_time,       \* state.config.general.use_12hr_time
    weather_enabled,     \* state.config.weather.enabled
    system_enabled,      \* state.config.system_info.enabled
    monitors,            \* cpu and gpu are Some
    time_interval,       \* time_interval is Some
    reactive_stream,     \* reactive_stream is Some
    reactive_active,     \* state.reactive_active
    is_reactive_running,
    menu_rx,             \* menu events not yet polled
    dialogs,             \* spawned file dialog tasks
    cmd_rx,              \* the command channel
    retry_in,            \* ticks until retry_interval is ready
    plan,                \* steps the running handler still has to do
    res,                 \* result of the current step, "none" while it runs
    since,               \* ticks since handle_disconnect (capped)
    opsOpen,             \* device operations entered and not returned
    prev_conn,           \* state.connection before its last change
    sess,                \* board type of the session under call
    link,                \* its device: "answering", "silent" or "gone"
    call,                \* the method running on the session, NoCall if none
    pc,                  \* the frame the call sends next
    idx,                 \* chunk index of the upload loop
    io,                  \* execute: "none", or "reading" after its write
    frames,              \* frames the call has written to the device
    progress,            \* arguments the progress callback was given
    ret,                 \* value the call returned, "none" while it runs
    device_list,         \* HidApi::device_list(), in enumeration order
    self_kind,           \* the BoardKind as_board is called on
    opened,              \* what as_board returned, "none" before the call
    fn,                  \* the codec function applied last, "none" before
    arg,                 \* its arguments
    out,                 \* the value it returned
    path_inode,          \* the file the lock path names, 0 when there is none
    held_by,             \* per file: the process holding its lock, 0 if free
    proc_pc,             \* per process: where it is in Lock::acquire / drop
    proc_fd,             \* per process: the file its descriptor is open on
    daemon_pc            \* where daemon_loop is, "none" when it does not run

trayVars == <<board_kind, device, loop, board, local_b, connection,
          current_screen, initial_screen, use_12hr_time, weather_enabled,
          system_enabled, monitors, time_interval, reactive_stream,
          reactive_active, is_reactive_running, menu_rx, dialogs, cmd_rx,
          retry_in, plan, res, since, opsOpen, prev_conn>>
sessVars == <<sess, link, call, pc, idx, io, frames, progress, ret>>
detVars == <<device_list, self_kind, opened>>
codecVars == <<fn, arg, out>>
lockVars == <<path_inode, held_by, proc_pc, proc_fd>>
utilVars == <<codecVars, lockVars, daemon_pc>>
libVars == <<sessVars, detVars, utilVars>>
vars == <<trayVars, libVars>>

envVars == <<board_kind, device>>
cfgVars == <<initial_screen, use_12hr_time, weather_enabled, system_enabled, monitors>>
reactVars == <<reactive_stream, reactive_active, is_reactive_running>>
connVars == <<board, local_b, connection, current_screen, time_interval, prev_conn>>
chanVars == <<menu_rx, dialogs, cmd_rx>>
taskVars == <<plan, res, opsOpen>>
clockVars == <<retry_in, since>>

SessIdle ==
    /\ sess = NoBoard
    /\ link = "gone"
    /\ call = NoCall
    /\ pc = "idle"
    /\ idx = 0
    /\ io = "none"
    /\ frames = <<>>
    /\ progress = <<>>
    /\ ret = "none"

DetIdle ==
    /\ device_list = <<>>
    /\ self_kind = "Auto"
    /\ opened = "none"

UtilIdle ==
    /\ fn = "none"
    /\ arg = <<>>
    /\ out = <<>>
    /\ path_inode = 0
    /\ held_by = <<>>
    /\ proc_pc = <<>>
    /\ proc_fd = <<>>
    /\ daemon_pc = "none"

LibIdle == SessIdle /\ DetIdle /\ UtilIdle

TrayInit(screens, hr12) ==
    /\ \E st \in Setups : board_kind = st[1] /\ device = st[2]
    /\ loop = "running"
    /\ board = NoBoard
    /\ local_b = NoBoard
    /\ connection = "Disconnected"
    /\ current_screen = "None"
    /\ initial_screen \in screens
    /\ use_12hr_time \in hr12
    /\ weather_enabled = TRUE
    /\ system_enabled = TRUE
    /\ monitors = FALSE
    /\ time_interval = FALSE
    /\ reactive_stream = FALSE
    /\ reactive_active = FALSE
    /\ is_reactive_running = FALSE
    /\ menu_rx = <<>>
    /\ dialogs = <<>>
    /\ cmd_rx = <<>>
    /\ retry_in = 0
    /\ plan = <<>>
    /\ res = "none"
    /\ since = 0
    /\ opsOpen = 0
    /\ prev_conn = "None"

InitWith(screens, hr12) == TrayInit(screens, hr12) /\ LibIdle

Init == InitWith(InitialScreens, BOOLEAN)

(* ------------------------------ helpers -------------------------------- *)
\* the handle device calls go to: the loop's board, or `b` while connecting
Handle == IF board # NoBoard THEN board ELSE local_b

\* variant: select! polled while a branch handler is still executing
LoopIdle_while_busy == loop = "running"

\* select! is polled: the loop runs and no branch handler is executing
LoopIdle == loop = "running" /\ plan = <<>>

\* variant: a disconnect that publishes Disconnected
handle_disconnect_as_disconnected ==
    [board |-> NoBoard, connection |-> "Disconnected"]

\* variant: a disconnect that keeps the handle
handle_disconnect_keeps_board ==
    [board |-> board, connection |-> "Reconnecting"]

\* variant: a disconnect that leaves the published state as it is
handle_disconnect_keeps_state ==
    [board |-> NoBoard, connection |-> connection]

\* the assignments of handle_disconnect
handle_disconnect == [board |-> NoBoard, connection |-> "Reconnecting"]

IsDeviceResult(r) == r \in {"ok"} \cup DeviceFailures

\* start the steps p of a handler on board b, with `open` operations open
RunFrom(b, p, open) ==
    IF p = <<>>
    THEN /\ plan' = <<>>
         /\ res' = "none"
         /\ opsOpen' = open
    ELSE LET r == Begin(b, Head(p)) IN
         /\ plan' = p
         /\ res' = r
         /\ opsOpen' = open + (IF r = "none" THEN 1 ELSE 0)

Run(b, p) == RunFrom(b, p, opsOpen)

Pending == Len(menu_rx) + Len(dialogs) + Len(cmd_rx)

(* ----------------------------- environment ----------------------------- *)
\* the scheduler thread is blocked: in select!, in device I/O or in a fetch
Blocked == loop = "running" /\ (plan = <<>> \/ res \in {"none", "fetching"})

ClockTick ==
    /\ Blocked
    /\ retry_in > 0 \/ since < RetryPeriod
    /\ retry_in' = IF retry_in > 0 THEN retry_in - 1 ELSE 0
    /\ since' = IF since < RetryPeriod THEN since + 1 ELSE since
    /\ UNCHANGED <<envVars, libVars, loop, connVars, cfgVars, reactVars, chanVars, taskVars>>

\* the user clicks a menu item
UserClick(events, cap) ==
    /\ Blocked
    /\ Pending < cap
    /\ \E e \in events : menu_rx' = Append(menu_rx, e)
    /\ UNCHANGED <<envVars, libVars, loop, connVars, cfgVars, reactVars, dialogs, cmd_rx,
                   taskVars, clockVars>>

IsPick(e) == e.c \in {"PickImage", "PickGif"}
IsCommand(e) == ~IsPick(e)

\* ui_interval.tick(): every polled menu event is turned into its action
UiTick ==
    /\ LoopIdle
    /\ menu_rx # <<>>
    /\ cmd_rx' = cmd_rx \o SelectSeq(menu_rx, IsCommand)
    /\ dialogs' = IF as_screen_size(board)
                  THEN dialogs \o SelectSeq(menu_rx, IsPick)
                  ELSE dialogs
    /\ menu_rx' = <<>>
    /\ UNCHANGED <<envVars, libVars, loop, connVars, cfgVars, reactVars, taskVars, clockVars>>

\* a spawned file dialog task ends: cancelled, failed to encode, or sends
DialogDone ==
    /\ loop = "running"
    /\ plan = <<>> \/ res = "fetching"
    /\ dialogs # <<>>
    /\ dialogs' = Tail(dialogs)
    /\ \/ cmd_rx' = cmd_rx
       \/ /\ Head(dialogs).c = "PickImage"
          /\ \E n \in 1..MaxChunks : cmd_rx' = Append(cmd_rx, Cmd("UploadImage", "", n))
       \/ /\ Head(dialogs).c = "PickGif"
          /\ \E n \in 1..MaxChunks, v \in {"", "bad"} :
                cmd_rx' = Append(cmd_rx, Cmd("UploadGif", v, n))
    /\ UNCHANGED <<envVars, libVars, loop, connVars, cfgVars, reactVars, menu_rx, taskVars,
                   clockVars>>

(* ------------------------------ connecting ----------------------------- *)
\* BoardKind::as_board
as_board(kind, dev) ==
    IF kind \in {"Auto", dev} THEN {dev, "Err"} ELSE {"Err"}

\* variant: the time sync pushed before the default screen
ConnectPlan_time_first(b, initial) ==
    <<Step("conn_time", "apply_time", "", 0)>>
    \o (IF initial # "reactive" /\ As(b, "screen")
        THEN <<Step("conn_screen", "set_screen", initial, 0)>> ELSE <<>>)

\* the device operations of the Ok branch of the retry handler, in order
ConnectPlan(b, initial) ==
    (IF initial = "reactive"
     THEN (IF As(b, "screen")
           THEN <<Step("conn_reactive", "set_screen", "image", 0)>> ELSE <<>>)
          \o <<Step("conn_find", "find_input", "", 0)>>
     ELSE <<>>)
    \o (IF initial # "reactive" /\ As(b, "screen")
        THEN <<Step("conn_screen", "set_screen", initial, 0)>> ELSE <<>>)
    \o <<Step("conn_time", "apply_time", "", 0)>>

ConnLabels == {"conn_reactive", "conn_find", "conn_screen", "conn_time"}

\* retry_interval.tick(), if board.is_none()
RetryTick ==
    /\ LoopIdle
    /\ board = NoBoard
    /\ retry_in = 0
    /\ retry_in' = RetryPeriod
    /\ \E b \in as_board(board_kind, device) :
          IF b = "Err"
          THEN /\ connection' = "Disconnected"
               /\ prev_conn' = IF connection = "Disconnected" THEN prev_conn
                                ELSE connection
               /\ UNCHANGED <<local_b, monitors, taskVars>>
          ELSE /\ connection' = "Connected"
               /\ prev_conn' = connection
               /\ monitors' = (system_enabled \/ monitors)
               /\ local_b' = b
               /\ Run(b, ConnectPlan(b, initial_screen))
    /\ UNCHANGED <<envVars, libVars, loop, board, current_screen, time_interval, initial_screen,
                   use_12hr_time, weather_enabled, system_enabled, reactVars, chanVars,
                   since>>

(* --------------------------- running a handler ------------------------- *)
\* the device operation in flight returns
Exec ==
    /\ loop = "running"
    /\ plan # <<>>
    /\ res = "none"
    /\ \E o \in ExecOutcomes(Handle) :
          IF o = "panic"
          THEN loop' = "panicked" /\ res' = res
          ELSE loop' = loop /\ res' = o
    /\ UNCHANGED <<envVars, libVars, connVars, cfgVars, reactVars, chanVars, plan, opsOpen,
                   clockVars>>

\* what the handler was waiting for, other than the device, arrives
EnvResolve ==
    /\ loop = "running"
    /\ plan # <<>>
    /\ res \in Awaiting
    /\ \/ /\ res = "fetching"
          /\ \/ /\ res' \in {"skipped", "unknown_wmo"}
                /\ opsOpen' = opsOpen
             \/ /\ res' = "none"
                /\ opsOpen' = opsOpen + 1
       \/ /\ res = "enumerating"
          /\ res' \in {"found", "not_found"}
          /\ opsOpen' = opsOpen
    /\ UNCHANGED <<envVars, libVars, loop, connVars, cfgVars, reactVars, chanVars, plan,
                   clockVars>>

FindLabels == {"conn_find", "cmd_find"}

\* the current operation has returned: the handler acts on its result and
\* goes on with its next operation, or returns to select!
Complete ==
    /\ loop = "running"
    /\ plan # <<>>
    /\ res \notin {"none"} \cup Awaiting
    /\ LET s == Head(plan)
           fatal == SessionFatal(s, res)
           open == opsOpen - (IF IsDeviceResult(res) THEN 1 ELSE 0)
       IN  /\ board' = IF fatal THEN handle_disconnect.board
                       ELSE IF s.lbl = "conn_time" THEN local_b ELSE board
           /\ local_b' = IF s.lbl = "conn_time" THEN NoBoard ELSE local_b
           /\ connection' = IF fatal THEN handle_disconnect.connection ELSE connection
           /\ since' = IF fatal THEN 0 ELSE since
           /\ current_screen' =
                 IF s.lbl \in {"conn_screen", "cmd_screen"} /\ res = "ok"
                 THEN s.id ELSE current_screen
           /\ initial_screen' =
                 IF s.lbl = "cmd_screen" /\ res = "ok" THEN s.id
                 ELSE IF s.lbl = "cmd_find" /\ res = "found" THEN "reactive"
                 ELSE initial_screen
           /\ time_interval' = ((s.lbl = "conn_time" /\ use_12hr_time) \/ time_interval)
           /\ reactive_stream' = IF s.lbl \in FindLabels THEN res = "found"
                                 ELSE reactive_stream
           /\ reactive_active' = ((s.lbl \in FindLabels /\ res = "found") \/ reactive_active)
           /\ prev_conn' = IF fatal THEN connection ELSE prev_conn
           /\ IF fatal THEN RunFrom(NoBoard, <<>>, open)
              ELSE RunFrom(Handle, Tail(plan), open)
    /\ UNCHANGED <<envVars, libVars, loop, use_12hr_time, weather_enabled, system_enabled,
                   monitors, is_reactive_running, chanVars, retry_in>>

(* ------------------------------- commands ------------------------------ *)
\* Some(cmd) = cmd_rx.recv(): the command at the head of the channel
Dequeue(c) ==
    /\ LoopIdle
    /\ cmd_rx # <<>>
    /\ Head(cmd_rx).c = c
    /\ cmd_rx' = Tail(cmd_rx)

HasBoard == board # NoBoard

CmdQuit ==
    /\ Dequeue("Quit")
    /\ loop' = "quit"
    /\ UNCHANGED <<envVars, libVars, connVars, cfgVars, reactVars, menu_rx, dialogs, taskVars,
                   clockVars>>

\* the device operations of handle_command for a board command
CommandPlan(cmd, b) ==
    CASE cmd.c = "SetScreen" ->
            IF As(b, "screen")
            THEN <<Step("cmd_screen", "set_screen", cmd.id, 0)>> ELSE <<>>
      [] cmd.c = "UploadImage" ->
            IF As(b, "image")
            THEN <<Step("cmd_upimg", "upload_image", cmd.id, cmd.n)>> ELSE <<>>
      [] cmd.c = "UploadGif" ->
            IF As(b, "gif")
            THEN <<Step("cmd_upgif", "upload_gif", cmd.id, cmd.n)>> ELSE <<>>
      [] cmd.c = "ClearImage" ->
            IF As(b, "image") THEN <<Step("cmd_climg", "clear_image", "", 0)>> ELSE <<>>
      [] cmd.c = "ClearGif" ->
            IF As(b, "gif") THEN <<Step("cmd_clgif", "clear_gif", "", 0)>> ELSE <<>>
      [] cmd.c = "ClearAllMedia" ->
            (IF As(b, "image") THEN <<Step("cmd_ca_img", "clear_image", "", 0)>> ELSE <<>>)
            \o (IF As(b, "gif") THEN <<Step("cmd_ca_gif", "clear_gif", "", 0)>> ELSE <<>>)
      [] cmd.c = "Toggle12HrTime" -> <<Step("cmd_time", "apply_time", "", 0)>>
      [] OTHER -> <<>>

\* variant: the command applied to the keyboard without looking at `board`
BoardCommand_on_device(c) ==
    /\ Dequeue(c)
    /\ Run(device, CommandPlan(Head(cmd_rx), device))
    /\ UNCHANGED <<envVars, libVars, loop, connVars, cfgVars, reactVars, menu_rx, dialogs,
                   clockVars>>

BoardCommand(c) ==
    /\ Dequeue(c)
    /\ Run(board, IF HasBoard THEN CommandPlan(Head(cmd_rx), board) ELSE <<>>)
    /\ UNCHANGED <<envVars, libVars, loop, connVars, cfgVars, reactVars, menu_rx, dialogs,
                   clockVars>>

CmdSetScreen ==
    /\ cmd_rx # <<>>
    /\ Head(cmd_rx).id # "reactive"
    /\ BoardCommand("SetScreen")

CmdUploadImage ==
    /\ LoopIdle
    /\ BoardCommand("UploadImage")
CmdUploadGif ==
    /\ LoopIdle
    /\ BoardCommand("UploadGif")
CmdClearImage ==
    /\ LoopIdle
    /\ BoardCommand("ClearImage")
CmdClearGif ==
    /\ LoopIdle
    /\ BoardCommand("ClearGif")
CmdClearAllMedia ==
    /\ LoopIdle
    /\ BoardCommand("ClearAllMedia")

\* SetScreen("reactive") -> CommandResult::ToggleReactive
CmdToggleReactive ==
    /\ Dequeue("SetScreen")
    /\ Head(cmd_rx).id = "reactive"
    /\ IF reactive_active
       THEN /\ reactive_stream' = FALSE
            /\ is_reactive_running' = FALSE
            /\ reactive_active' = FALSE
            /\ initial_screen' = "meletrix"
            /\ UNCHANGED taskVars
       ELSE /\ Run(board,
                   IF HasBoard
                   THEN (IF As(board, "screen")
                         THEN <<Step("cmd_reactive", "set_screen", "image", 0)>>
                         ELSE <<>>)
                        \o <<Step("cmd_find", "find_input", "", 0)>>
                   ELSE <<>>)
            /\ UNCHANGED <<reactVars, initial_screen>>
    /\ UNCHANGED <<envVars, libVars, loop, connVars, use_12hr_time, weather_enabled,
                   system_enabled, monitors, menu_rx, dialogs, clockVars>>

CmdToggleWeather ==
    /\ Dequeue("ToggleWeather")
    /\ weather_enabled' = ~weather_enabled
    /\ UNCHANGED <<envVars, libVars, loop, connVars, initial_screen, use_12hr_time,
                   system_enabled, monitors, reactVars, menu_rx, dialogs, taskVars,
                   clockVars>>

CmdToggleSystemInfo ==
    /\ Dequeue("ToggleSystemInfo")
    /\ system_enabled' = ~system_enabled
    /\ monitors' = ((~system_enabled /\ HasBoard) \/ monitors)
    /\ UNCHANGED <<envVars, libVars, loop, connVars, initial_screen, use_12hr_time,
                   weather_enabled, reactVars, menu_rx, dialogs, taskVars, clockVars>>

CmdToggle12HrTime ==
    /\ Dequeue("Toggle12HrTime")
    /\ use_12hr_time' = ~use_12hr_time
    /\ Run(board, IF HasBoard THEN CommandPlan(Head(cmd_rx), board) ELSE <<>>)
    /\ UNCHANGED <<envVars, libVars, loop, connVars, initial_screen, weather_enabled,
                   system_enabled, monitors, reactVars, menu_rx, dialogs, clockVars>>

\* the immediate refresh of both displays (the unit itself changes no control flow)
CmdToggleFahrenheit ==
    /\ Dequeue("ToggleFahrenheit")
    /\ Run(board,
           IF HasBoard
           THEN (IF weather_enabled
                 THEN <<Step("cmd_f_weather", "apply_weather", "", 0)>> ELSE <<>>)
                \o (IF system_enabled /\ monitors
                    THEN <<Step("cmd_f_system", "apply_system", "", 0)>> ELSE <<>>)
           ELSE <<>>)
    /\ UNCHANGED <<envVars, libVars, loop, connVars, cfgVars, reactVars, menu_rx, dialogs,
                   clockVars>>

\* Config::reload: the file is read again, or the error is reported
CmdReloadConfig ==
    /\ Dequeue("ReloadConfig")
    /\ \/ UNCHANGED <<initial_screen, use_12hr_time, weather_enabled, system_enabled>>
       \/ /\ initial_screen' \in InitialScreens
          /\ use_12hr_time' \in BOOLEAN
          /\ weather_enabled' \in BOOLEAN
          /\ system_enabled' \in BOOLEAN
    /\ UNCHANGED <<envVars, libVars, loop, connVars, monitors, reactVars, menu_rx, dialogs,
                   taskVars, clockVars>>

(* ---------------------------- periodic syncs --------------------------- *)
Periodic(p) ==
    /\ LoopIdle
    /\ HasBoard
    /\ Run(board, p)
    /\ UNCHANGED <<envVars, libVars, loop, connVars, cfgVars, reactVars, chanVars, clockVars>>

\* weather_interval.tick(), if board.is_some() && weather.enabled
WeatherTick ==
    /\ weather_enabled
    /\ Periodic(<<Step("tick_weather", "apply_weather", "", 0)>>)

\* system_interval.tick(), if board.is_some() && system_info.enabled
SystemTick ==
    /\ system_enabled
    /\ Periodic(IF monitors THEN <<Step("tick_system", "apply_system", "", 0)>> ELSE <<>>)

\* time_interval tick, if board.is_some()
TimeTick ==
    /\ time_interval
    /\ Periodic(<<Step("tick_time", "apply_time", "", 0)>>)

(* ----------------------------- reactive mode --------------------------- *)
Reactive ==
    /\ LoopIdle
    /\ HasBoard
    /\ reactive_stream

\* Ok(Err(e)): the input stream failed
ReactiveError ==
    /\ Reactive
    /\ board' = handle_disconnect.board
    /\ connection' = handle_disconnect.connection
    /\ since' = 0
    /\ prev_conn' = connection
    /\ UNCHANGED <<envVars, libVars, loop, local_b, current_screen, time_interval,
                   cfgVars, reactVars, chanVars, taskVars, retry_in>>

\* Ok(Ok(ev)) with a key event while the image is shown
ReactiveKey ==
    /\ Reactive
    /\ ~is_reactive_running
    /\ is_reactive_running' = TRUE
    /\ Run(board, IF As(board, "screen")
                  THEN <<Step("re_switch", "screen_switch", "", 0)>> ELSE <<>>)
    /\ UNCHANGED <<envVars, libVars, loop, connVars, cfgVars, reactive_stream, reactive_active,
                   chanVars, clockVars>>

\* Err(_): no input for 500 ms while the gif is shown
ReactiveIdle ==
    /\ Reactive
    /\ is_reactive_running
    /\ is_reactive_running' = FALSE
    /\ Run(board, IF As(board, "screen")
                  THEN <<Step("re_reset", "reset_screen", "", 0),
                         Step("re_sw1", "screen_switch", "", 0),
                         Step("re_sw2", "screen_switch", "", 0)>>
                  ELSE <<>>)
    /\ UNCHANGED <<envVars, libVars, loop, connVars, cfgVars, reactive_stream, reactive_active,
                   chanVars, clockVars>>

(* --------------------------- board sessions: calls ---------------------- *)
\* the capability a trait method belongs to
CapOf(op) ==
    CASE op = "set_time" -> "time"
      [] op = "upload_image" -> "image"
      [] OTHER -> "gif"

SessionOps == {"set_time"} \cup UploadOps

\* buffer lengths a method is called with; the Tiga family's upload_gif
\* uploads the buffer encode_gif returned
Lens(b, op) ==
    CASE op = "set_time" -> {0}
      [] b = "Zoom65v3" /\ op = "upload_image" -> ImageLens
      [] b = "Zoom65v3" /\ op = "upload_gif" -> GifLens
      [] OTHER -> SmallLens

\* a caller takes a handle from an accessor and enters the method
Call ==
    /\ sess # NoBoard
    /\ pc \in {"idle", "done"}
    /\ \E op \in SessionOps :
         /\ As(sess, CapOf(op))
         /\ \E len \in Lens(sess, op) :
              /\ call' = [op |-> op, len |-> len]
              /\ \/ LET e == Enter(sess, op, len)
                    IN  pc' = e.pc /\ ret' = e.ret
                 \/ /\ sess \in TigaFamily /\ op = "upload_gif"
                    /\ pc' = "done" /\ ret' = "InvalidMedia"
    /\ idx' = 0
    /\ io' = "none"
    /\ frames' = <<>>
    /\ progress' = <<>>
    /\ UNCHANGED <<trayVars, detVars, utilVars, sess, link>>

\* the progress callback of a chunk, then execute's device.write
Write ==
    /\ pc \in FramePcs
    /\ io = "none"
    /\ progress' = IF pc \in ChunkPcs THEN Append(progress, idx) ELSE progress
    /\ \/ /\ link # "gone"
          /\ frames' = Append(frames, FrameAt(sess, call, pc, idx))
          /\ io' = "reading"
          /\ UNCHANGED <<pc, ret>>
       \/ /\ link = "gone"
          /\ ret' = "Hid"
          /\ pc' = "done"
          /\ UNCHANGED <<frames, io>>
    /\ UNCHANGED <<trayVars, detVars, utilVars, sess, link, call, idx>>

\* the same without the callback that follows the terminator
Advance_no_final_cb ==
    LET nxt == AfterFrame(sess, call, pc, idx)
    IN  /\ pc' = nxt
        /\ idx' = IF pc \in ChunkPcs THEN idx + 1 ELSE idx
        /\ io' = "none"
        /\ ret' = IF nxt = "done" THEN "Ok" ELSE "none"
        /\ UNCHANGED <<frames, progress>>

\* execute returned and the method goes on to its next frame, or returns Ok
Advance ==
    LET nxt == AfterFrame(sess, call, pc, idx)
    IN  /\ pc' = nxt
        /\ idx' = IF pc \in ChunkPcs THEN idx + 1 ELSE idx
        /\ io' = "none"
        /\ ret' = IF nxt = "done" THEN "Ok" ELSE "none"
        /\ progress' = IF pc = "image_end"
                       THEN Append(progress, chunks(call.len, CHUNK_SIZE))
                       ELSE progress
        /\ UNCHANGED frames

\* the method returns the error, or the process aborts
Fail(r) ==
    /\ pc' = IF r = "panic" THEN "aborted" ELSE "done"
    /\ ret' = r
    /\ io' = "none"
    /\ UNCHANGED <<idx, frames, progress>>

\* the device's reply arrives at the pending read
ReadReply ==
    /\ io = "reading"
    /\ link = "answering"
    /\ \E r \in Replies :
         IF sess = "Zoom65v3"
         THEN IF Outcome65(r) = "ok" THEN Advance ELSE Fail(Outcome65(r))
         ELSE Advance
    /\ UNCHANGED <<trayVars, detVars, utilVars, sess, link, call>>

\* read_timeout(.., 100) of the Tiga family returns; its result is dropped
ReadTimeout ==
    /\ io = "reading"
    /\ sess \in TigaFamily
    /\ Advance
    /\ UNCHANGED <<trayVars, detVars, utilVars, sess, link, call>>

\* device.read of Zoom65v3 fails once the device is gone
ReadError ==
    /\ io = "reading"
    /\ sess = "Zoom65v3"
    /\ link = "gone"
    /\ Fail("Hid")
    /\ UNCHANGED <<trayVars, detVars, utilVars, sess, link, call>>

\* the keyboard is unplugged
Unplug ==
    /\ sess # NoBoard
    /\ link # "gone"
    /\ link' = "gone"
    /\ UNCHANGED <<trayVars, detVars, utilVars, sess, call, pc, idx, io, frames, progress, ret>>

(* ----------------------- board sessions: set_screen --------------------- *)
\* screen ids set_screen is called with
ScreenIds == {"download", "weather", "meletrix", "gif", "battery", "bogus"}

\* the same with the switches before the moves up or down
set_screen_switch_first(id, k) ==
    LET d == to_directions(FromStr(id))
    IN  IF k = 0 THEN "reset_screen"
        ELSE IF k <= d[2] THEN "screen_switch"
        ELSE IF k <= d[2] + Abs(d[1])
             THEN (IF d[1] < 0 THEN "screen_up" ELSE "screen_down")
        ELSE "done"

\* Zoom65v3::set_screen: the command it sends after k commands were
\* acknowledged, "done" when it returns Ok
set_screen(id, k) ==
    LET d == to_directions(FromStr(id))
    IN  IF k = 0 THEN "reset_screen"
        ELSE IF k <= Abs(d[1])
             THEN (IF d[1] < 0 THEN "screen_up" ELSE "screen_down")
        ELSE IF k <= Abs(d[1]) + d[2] THEN "screen_switch"
        ELSE "done"

\* Board::set_screen of Zoom65v3: id.parse(), then Zoom65v3::set_screen
ScreenCall ==
    /\ sess = "Zoom65v3"
    /\ pc \in {"idle", "done"}
    /\ \E id \in ScreenIds :
         /\ call' = [op |-> "set_screen", len |-> 0, id |-> id]
         /\ IF FromStr(id) = ParseErr
            THEN pc' = "done" /\ ret' = "InvalidScreenPosition"
            ELSE pc' = set_screen(id, 0) /\ ret' = "none"
    /\ idx' = 0
    /\ io' = "none"
    /\ frames' = <<>>
    /\ progress' = <<>>
    /\ UNCHANGED <<trayVars, detVars, utilVars, sess, link>>

\* the reply to a command of set_screen arrives: `?` on its result
ScreenReply ==
    /\ io = "reading"
    /\ link = "answering"
    /\ call.op = "set_screen"
    /\ \E r \in Replies :
         IF Outcome65(r) = "ok"
         THEN /\ pc' = set_screen(call.id, idx + 1)
              /\ idx' = idx + 1
              /\ io' = "none"
              /\ ret' = IF set_screen(call.id, idx + 1) = "done"
                        THEN "Ok" ELSE "none"
              /\ UNCHANGED <<frames, progress>>
         ELSE Fail(Outcome65(r))
    /\ UNCHANGED <<trayVars, detVars, utilVars, sess, link, call>>

(* ------------------------------ detection ------------------------------ *)
\* a HID device as hidapi reports it
Device(vid, pid, up, u) ==
    [vendor_id |-> vid, product_id |-> pid, usage_page |-> up, usage |-> u]

\* the screen interfaces of the two boards, another product of the Zoom65
\* vendor with the same usages, and the key matrix interface of the Zoom65 V3
Devices ==
    {Device(14005, 10367, 65376, 97), Device(21826, 51591, 65376, 97),
     Device(14005, 4660, 65376, 97), Device(14005, 10367, 1, 6)}

\* device lists in every enumeration order
DeviceLists == UNION {[1..n -> Devices] : n \in 0..MaxDevices}

\* mod consts of a board crate
Consts(b) ==
    CASE b = "Zoom65v3" -> Device(14005, 10367, 65376, 97)
      [] b = "ZoomTklDyna" -> Device(21826, 51591, 65376, 97)
      [] OTHER -> Device(0, 0, 65376, 97)

\* the Option fields of INFO: {} is None, {v} is Some(v)
Info(b) ==
    CASE b = "Zoom75Tiga" ->
            [vendor_id |-> {}, product_id |-> {},
             usage_page |-> {Consts(b).usage_page}, usage |-> {Consts(b).usage}]
      [] OTHER ->
            [vendor_id |-> {Consts(b).vendor_id},
             product_id |-> {Consts(b).product_id},
             usage_page |-> {Consts(b).usage_page}, usage |-> {Consts(b).usage}]

\* Option::is_none_or(|x| v == x)
is_none_or(field, v) == \A x \in field : v = x

\* a match that leaves the product id out
matches_vendor_only(d, info) ==
    /\ is_none_or(info.vendor_id, d.vendor_id)
    /\ is_none_or(info.usage_page, d.usage_page)
    /\ is_none_or(info.usage, d.usage)

\* detection.rs: matches(device, info)
matches(d, info) ==
    /\ is_none_or(info.vendor_id, d.vendor_id)
    /\ is_none_or(info.product_id, d.product_id)
    /\ is_none_or(info.usage_page, d.usage_page)
    /\ is_none_or(info.usage, d.usage)

ALL_BOARDS == <<"Zoom65v3", "ZoomTklDyna">>

\* the closure of find in open() of a board crate
finds(b, d) ==
    IF b = "Zoom75Tiga"
    THEN d.usage_page = Consts(b).usage_page /\ d.usage = Consts(b).usage
    ELSE d = Consts(b)

\* open() of a board crate: refresh_devices()?, find, open_device()?
open(b, devs) ==
    IF \E i \in DOMAIN devs : finds(b, devs[i])
    THEN {b, "Hid"}
    ELSE {"DeviceNotFound", "Hid"}

\* the loop of as_board(Auto) from device k on: the board of the first
\* device that matches a descriptor, NoBoard when the list is exhausted
RECURSIVE scan(_, _)
scan(devs, k) ==
    IF k > Len(devs) THEN NoBoard
    ELSE IF matches(devs[k], Info("Zoom65v3")) THEN "Zoom65v3"
    ELSE IF matches(devs[k], Info("ZoomTklDyna")) THEN "ZoomTklDyna"
    ELSE scan(devs, k + 1)

\* BoardKind::as_board: every value it can return for a device list;
\* "HidApi" is the Hid error of HidApi::new()
as_board_results(kind, devs) ==
    IF kind = "Auto"
    THEN {"HidApi"} \cup
         (IF scan(devs, 1) = NoBoard THEN {"DeviceNotFound"}
          ELSE open(scan(devs, 1), devs))
    ELSE open(kind, devs)

\* as_board is called
AsBoard ==
    /\ opened = "none"
    /\ opened' \in as_board_results(self_kind, device_list)
    /\ UNCHANGED <<trayVars, sessVars, utilVars, device_list, self_kind>>

\* the returned board or error is dropped
DropBoard ==
    /\ opened # "none"
    /\ opened' = "none"
    /\ UNCHANGED <<trayVars, sessVars, utilVars, device_list, self_kind>>

\* devices are plugged, unplugged or enumerated in another order
Hotplug ==
    /\ opened = "none"
    /\ device_list' \in DeviceLists
    /\ device_list' # device_list
    /\ UNCHANGED <<trayVars, sessVars, utilVars, self_kind, opened>>

(* -------------------------------- codecs ------------------------------- *)
\* a ^ b on unsigned integers
RECURSIVE Xor(_, _)
Xor(a, b) ==
    IF a = 0 THEN b
    ELSE IF b = 0 THEN a
    ELSE 2 * Xor(a \div 2, b \div 2) + ((a + b) % 2)

\* crc16 started from 0 instead of 0xFFFF
crc16_init_zero(data) ==
    LET RECURSIVE bits(_, _)
        bits(crc, n) ==
            IF n = 0 THEN crc
            ELSE IF crc >= 32768
                 THEN bits(Xor((crc * 2) % 65536, 4129) % 65536, n - 1)
                 ELSE bits((crc * 2) % 65536, n - 1)
        RECURSIVE fold(_, _)
        fold(crc, k) ==
            IF crc <= 65535 /\ k <= Len(data)
            THEN fold(bits(Xor(crc, data[k] * 256), 8), k + 1)
            ELSE crc
    IN  fold(0, 1)

\* tiga-protocol crc.rs: crc16(data), u16 arithmetic
crc16(data) ==
    LET RECURSIVE bits(_, _)
        bits(crc, n) ==
            IF n = 0 THEN crc
            ELSE IF crc >= 32768
                 THEN bits(Xor((crc * 2) % 65536, 4129) % 65536, n - 1)
                 ELSE bits((crc * 2) % 65536, n - 1)
        RECURSIVE fold(_, _)
        fold(crc, k) ==
            IF crc <= 65535 /\ k <= Len(data)
            THEN fold(bits(Xor(crc, data[k] * 256), 8), k + 1)
            ELSE crc
    IN  fold(65535, 1)

\* build_packet with its additive checksum stored without the XOR
build_packet_plain_sum(command, payload, sub_type) ==
    LET RECURSIVE sum(_, _)
        sum(p, i) == IF i > 31 THEN 0 ELSE p[i] + sum(p, i + 1)
        data_length == Len(payload)
        p1 == [i \in 0..31 |->
                 CASE i = 8 -> 165
                   [] i = 9 -> command
                   [] i = 11 -> data_length % 256
                   [] i >= 12 /\ i < 31 /\ i - 12 < data_length -> payload[i - 11]
                   [] OTHER -> 0]
        sum9 == sum(p1, 9) % 65536
        checksum_pos == 12 + data_length
        p2 == IF checksum_pos < 32
              THEN [p1 EXCEPT ![checksum_pos] = sum9 % 256]
              ELSE p1
        p3 == [p2 EXCEPT ![0] = 28, ![1] = sub_type,
                         ![5] = (4 + data_length + 1) % 256]
        crc == crc16([k \in 1..32 |-> p3[k - 1]])
    IN  [p3 EXCEPT ![6] = crc % 256, ![7] = crc \div 256]

\* abi.rs: build_packet(command, payload, sub_type); the packet by offset
build_packet(command, payload, sub_type) ==
    LET RECURSIVE sum(_, _)
        sum(p, i) == IF i > 31 THEN 0 ELSE p[i] + sum(p, i + 1)
        data_length == Len(payload)
        p1 == [i \in 0..31 |->
                 CASE i = 8 -> 165
                   [] i = 9 -> command
                   [] i = 11 -> data_length % 256
                   [] i >= 12 /\ i < 31 /\ i - 12 < data_length -> payload[i - 11]
                   [] OTHER -> 0]
        sum9 == sum(p1, 9) % 65536
        checksum_pos == 12 + data_length
        p2 == IF checksum_pos < 32
              THEN [p1 EXCEPT ![checksum_pos] = Xor(sum9, 255) % 256]
              ELSE p1
        p3 == [p2 EXCEPT ![0] = 28, ![1] = sub_type,
                         ![5] = (4 + data_length + 1) % 256]
        crc == crc16([k \in 1..32 |-> p3[k - 1]])
    IN  [p3 EXCEPT ![6] = crc % 256, ![7] = crc \div 256]

\* the Zoom65 V3 checksum started from 0 instead of 0xFFFFFFFF
checksum_init_zero(data) ==
    LET RECURSIVE bits(_, _, _)
        bits(hi, lo, n) ==
            IF n = 0 THEN <<hi, lo>>
            ELSE LET h == ((hi * 2) % 65536) + (lo \div 32768)
                     l == ((lo * 2) % 65536)
                 IN  IF hi >= 32768
                     THEN bits(Xor(h, 1217), Xor(l, 7607), n - 1)
                     ELSE bits(h, l, n - 1)
        RECURSIVE fold(_, _)
        fold(val, k) ==
            IF val[1] <= 65535 /\ k <= Len(data)
            THEN fold(bits(Xor(val[1], data[k] * 256), val[2], 8), k + 1)
            ELSE val
        val == fold(<<0, 0>>, 1)
    IN  <<val[1] \div 256, val[1] % 256, val[2] \div 256, val[2] % 256>>

\* zoom65v3 checksum.rs: checksum(data); val & 0xFFFFFFFF is kept as the
\* pair of its high and low 16 bits
checksum(data) ==
    LET RECURSIVE bits(_, _, _)
        bits(hi, lo, n) ==
            IF n = 0 THEN <<hi, lo>>
            ELSE LET h == ((hi * 2) % 65536) + (lo \div 32768)
                     l == ((lo * 2) % 65536)
                 IN  IF hi >= 32768
                     THEN bits(Xor(h, 1217), Xor(l, 7607), n - 1)
                     ELSE bits(h, l, n - 1)
        RECURSIVE fold(_, _)
        fold(val, k) ==
            IF val[1] <= 65535 /\ k <= Len(data)
            THEN fold(bits(Xor(val[1], data[k] * 256), val[2], 8), k + 1)
            ELSE val
        val == fold(<<65535, 65535>>, 1)
    IN  <<val[1] \div 256, val[1] % 256, val[2] \div 256, val[2] % 256>>

\* byte strings handed to the codecs: ramps of 0 .. MaxPayload bytes, the
\* ASCII digits "123456789" and the vector of checksum_test
ByteStrings ==
    {[i \in 1..n |-> (pat[1] + (i - 1) * pat[2]) % 256] :
        n \in 0..MaxPayload,
        pat \in {<<0, 0>>, <<255, 0>>, <<1, 1>>, <<165, 37>>}}
    \cup {<<49, 50, 51, 52, 53, 54, 55, 56, 57>>,
          <<0, 0, 71, 73, 70, 56, 57, 97, 111, 0, 111, 0, 247, 0>>
              \o [i \in 1..14 |-> 0]}

\* types.rs: encode_temperature(temp_celsius: i16) -> u16. The i16 negation
\* and multiplication overflow: with overflow checks (a debug build) the
\* call panics, without them (a release build) the value wraps.
encode_temperature(temp_celsius, overflow_checks) ==
    LET neg == IF temp_celsius = -32768 THEN -32768 ELSE -temp_celsius
        magnitude == IF temp_celsius >= 0 THEN temp_celsius ELSE neg
        overflow == temp_celsius = -32768 \/ magnitude * 10 > 32767
        as_u16 == (magnitude * 10 + 655360) % 65536
    IN  IF overflow /\ overflow_checks
        THEN [panic |-> TRUE, value |-> 0]
        ELSE [panic |-> FALSE,
              value |-> IF temp_celsius >= 0 \/ as_u16 >= 32768
                        THEN as_u16
                        ELSE as_u16 + 32768]

\* from_rgb keeping only five bits of green
from_rgb_green5(r, g, b) ==
    LET r5 == (r \div 8) % 32
        g6 == (g \div 8) % 64
        b5 == (b \div 8) % 32
    IN  r5 * 2048 + g6 * 32 + b5

\* types.rs: Rgb565::from_rgb(r, g, b); the three fields do not overlap,
\* so | is +
from_rgb(r, g, b) ==
    LET r5 == (r \div 8) % 32
        g6 == (g \div 4) % 64
        b5 == (b \div 8) % 32
    IN  r5 * 2048 + g6 * 32 + b5

\* types.rs: Rgb565::to_be_bytes
to_be_bytes(v) == <<v \div 256, v % 256>>

\* abi.rs: theme(bg_color, font_color, theme_id), cmd::THEME = 0xFD
theme(bg_color, font_color, theme_id) ==
    build_packet(253,
                 <<0>> \o to_be_bytes(bg_color) \o to_be_bytes(font_color)
                       \o <<theme_id>>,
                 2)

\* chrono: time.weekday().num_days_from_sunday(), from the days since
\* 1970-01-01, a Thursday
num_days_from_sunday(year, month, day) ==
    LET y == IF month <= 2 THEN year - 1 ELSE year
        era == y \div 400
        yoe == y - era * 400
        mp == IF month > 2 THEN month - 3 ELSE month + 9
        doy == ((153 * mp + 2) \div 5) + day - 1
        doe == yoe * 365 + (yoe \div 4) - (yoe \div 100) + doy
        days == era * 146097 + doe - 719468
    IN  (days + 4) % 7

\* abi.rs: datetime(year, month, day, hour, minute, second, day_of_week),
\* cmd::DATETIME = 0x38
datetime(year, month, day, hour, minute, second, day_of_week) ==
    build_packet(56,
                 <<0, 1, (year \div 256) % 256, year % 256, month, day,
                   hour, minute, second, day_of_week>>,
                 3)

\* set_time sending the hour on a 12-hour clock when asked to
set_time_12hr(time, use_12hr) ==
    datetime(time.year % 65536, time.month, time.day,
             IF use_12hr THEN time.hour % 12 ELSE time.hour,
             time.minute, time.second,
             num_days_from_sunday(time.year, time.month, time.day))

\* zoom-tkl-dyna lib.rs: HasTime::set_time(time, _use_12hr), the packet it
\* executes
set_time(time, use_12hr) ==
    datetime(time.year % 65536, time.month, time.day, time.hour,
             time.minute, time.second,
             num_days_from_sunday(time.year, time.month, time.day))

\* DumbFloat16::new scaling directly and truncating
DumbFloat16_new_truncating(float) ==
    IF float <= 0 THEN 0
    ELSE IF float >= MAX_F32 THEN 65535
    ELSE float \div 1000

\* float.rs: DumbFloat16::new(float); the f32 values are counted in units
\* of 0.00001, in which every threshold 327.68 / 2^i and the 0.005 are whole
DumbFloat16_new(float) ==
    LET RECURSIVE bit(_, _, _, _)
        bit(f, n, current, i) ==
            IF n <= 65535 /\ i < 16
            THEN IF f >= (current \div 2) - 500
                 THEN bit(f - (current \div 2), ((n * 2) % 65536) + 1,
                          current \div 2, i + 1)
                 ELSE bit(f, (n * 2) % 65536, current \div 2, i + 1)
            ELSE n
    IN  IF float <= 0 THEN 0
        ELSE IF float >= MAX_F32 THEN 65535
        ELSE bit(float, 0, 32768000 * 2, 0)

\* `page_index as u16` of the Tiga family's upload_image
as_u16(i) == i % 65536

\* abi::image_chunk / protocol::image_chunk: the payload before the chunk
\* data, [0x00, page_index >> 8, page_index & 0xFF]
image_chunk(page_index) == <<0, (page_index \div 256) % 256, page_index % 256>>

\* buffer lengths handed to the Tiga family's upload_image: small ones and
\* those around 65535 and 65536 chunks of CHUNK_SIZE bytes
PageLens ==
    (0..MaxLen) \cup {65535 * CHUNK_SIZE, 65535 * CHUNK_SIZE + 1,
                      65536 * CHUNK_SIZE, 65536 * CHUNK_SIZE + 1}

\* sampled positions of data.chunks(CHUNK_SIZE).enumerate(): first and last
Ordinals(len) ==
    {k \in {0, 1, chunks(len, CHUNK_SIZE) - 2, chunks(len, CHUNK_SIZE) - 1} :
        0 <= k /\ k < chunks(len, CHUNK_SIZE)}

\* impl TryFrom<f32> for DumbFloat16: contains(&value).not().then_some(..)
DumbFloat16_try_from(value) ==
    IF ~(0 <= value /\ value <= MAX_F32)
    THEN <<"Ok", DumbFloat16_new(value)>>
    ELSE <<"Err">>

\* temperatures handed to encode_temperature
Temperatures ==
    (-MaxTemp..MaxTemp) \cup {3276, 3277, -3276, -3277, 32767, -32767, -32768}

\* colour channels and colours
Channels == {0, 1, 3, 4, 7, 8, 128, 248, 252, 255}
Colours == {<<255, 0, 0>>, <<0, 255, 0>>, <<0, 0, 255>>, <<255, 255, 255>>,
            <<18, 52, 86>>}

\* local date-times
DateTimes ==
    {t \in [year : {1970, 2024, 2025}, month : {1, 2, 12},
            day : {1, 28, 29, 31}, hour : {0, 12, 13, 23},
            minute : {0, 59}, second : {0, 59}] :
        t.day <= (IF t.month = 2
                  THEN (IF t.year % 4 = 0 THEN 29 ELSE 28)
                  ELSE 31)}

\* download rates in units of 0.00001: the hundredths up to MaxSpeed, some
\* with every bit pattern, values outside the range and values between
\* hundredths
Speeds ==
    {h * 1000 : h \in (-1..MaxSpeed) \cup
                      {16383, 16384, 21845, 32767, 32768, 32769, 43690,
                       65532, 65533, 65534, 65535, 70000}}
    \cup {400, 600, 1400, 1600, MAX_F32, -500}

\* a codec function is applied to an argument
Apply(f, a, o) ==
    /\ fn = "none"
    /\ fn' = f
    /\ arg' = a
    /\ out' = o
    /\ UNCHANGED <<trayVars, sessVars, detVars, lockVars, daemon_pc>>

\* the value is consumed
Forget ==
    /\ fn # "none"
    /\ fn' = "none"
    /\ arg' = <<>>
    /\ out' = <<>>
    /\ UNCHANGED <<trayVars, sessVars, detVars, lockVars, daemon_pc>>

(* ----------------------------- process lock ---------------------------- *)
\* daemon processes and the files the lock path can name over time
Procs == 1..MaxProcs
Inodes == 1..(MaxProcs + 1)

\* OpenOptions write(true).create(true).truncate(true).open(&path): opens
\* the file the path names, creating one when the path names none
OpenLockFile(p) ==
    /\ proc_pc[p] = "idle"
    /\ LET unused == {n \in Inodes :
                        /\ n # path_inode
                        /\ \A q \in Procs : proc_fd[q] # n}
           file == IF path_inode # 0 THEN path_inode
                   ELSE CHOOSE n \in unused : \A m \in unused : n <= m
       IN  /\ path_inode' = file
           /\ proc_fd' = [proc_fd EXCEPT ![p] = file]
    /\ proc_pc' = [proc_pc EXCEPT ![p] = "opened"]
    /\ UNCHANGED <<trayVars, sessVars, detVars, codecVars, daemon_pc, held_by>>

\* file.try_lock(): Ok gives the Lock guard and the tray runs; Err returns
\* AlreadyExists, which drops the file and ends the process
TryLock(p) ==
    /\ proc_pc[p] = "opened"
    /\ IF held_by[proc_fd[p]] = 0
       THEN /\ held_by' = [held_by EXCEPT ![proc_fd[p]] = p]
            /\ proc_pc' = [proc_pc EXCEPT ![p] = "running"]
            /\ UNCHANGED proc_fd
       ELSE /\ proc_pc' = [proc_pc EXCEPT ![p] = "idle"]
            /\ proc_fd' = [proc_fd EXCEPT ![p] = 0]
            /\ UNCHANGED held_by
    /\ UNCHANGED <<trayVars, sessVars, detVars, codecVars, daemon_pc, path_inode>>

\* Drop for Lock: remove_file(&self.path) unlinks whatever the path names
RemoveFile(p) ==
    /\ proc_pc[p] = "running"
    /\ path_inode' = 0
    /\ proc_pc' = [proc_pc EXCEPT ![p] = "removed"]
    /\ UNCHANGED <<trayVars, sessVars, detVars, codecVars, daemon_pc, held_by,
                   proc_fd>>

\* the _file field is dropped after Drop::drop returned: the descriptor is
\* closed and its lock released
CloseFile(p) ==
    /\ proc_pc[p] = "removed"
    /\ held_by' = [held_by EXCEPT ![proc_fd[p]] = 0]
    /\ proc_fd' = [proc_fd EXCEPT ![p] = 0]
    /\ proc_pc' = [proc_pc EXCEPT ![p] = "idle"]
    /\ UNCHANGED <<trayVars, sessVars, detVars, codecVars, daemon_pc, path_inode>>

(* ------------------------- daemon.rs: daemon_loop ---------------------- *)
\* what daemon_loop leaves alone
daemonRest == <<envVars, loop, local_b, initial_screen, weather_enabled,
                system_enabled, monitors, time_interval, reactVars, menu_rx,
                dialogs, taskVars, clockVars, prev_conn, sessVars, detVars,
                codecVars, lockVars>>

\* commands the tray sends to daemon_loop
DaemonEvents ==
    {Cmd("Quit", "", 0), Cmd("SetScreen", "meletrix", 0),
     Cmd("Toggle12HrTime", "", 0), Cmd("UploadImage", "", 1)}

\* the tray sends a command
DaemonSend ==
    /\ daemon_pc \in {"select", "open", "connected", "retry_sleep"}
    /\ Len(cmd_rx) < MaxPending + 1
    /\ \E e \in DaemonEvents : cmd_rx' = Append(cmd_rx, e)
    /\ UNCHANGED <<daemonRest, daemon_pc, board, connection, current_screen,
                   use_12hr_time>>

\* daemon_loop, select!: Some(cmd) = cmd_rx.recv() while not connected
DaemonRecv ==
    /\ daemon_pc = "select"
    /\ cmd_rx # <<>>
    /\ cmd_rx' = Tail(cmd_rx)
    /\ daemon_pc' = IF Head(cmd_rx).c = "Quit" THEN "returned" ELSE "select"
    /\ use_12hr_time' = IF Head(cmd_rx).c = "Toggle12HrTime"
                        THEN ~use_12hr_time ELSE use_12hr_time
    /\ UNCHANGED <<daemonRest, board, connection, current_screen>>

\* daemon_loop, select!: the 100 ms sleep ends first
DaemonWake ==
    /\ daemon_pc = "select"
    /\ cmd_rx = <<>>
    /\ daemon_pc' = "open"
    /\ UNCHANGED <<daemonRest, cmd_rx, board, connection, current_screen,
                   use_12hr_time>>

\* Zoom65v3::open(); on Ok the initial screen and the time sync that
\* run_connected makes before its loop
DaemonOpen ==
    /\ daemon_pc = "open"
    /\ \/ /\ connection' = "Disconnected"
          /\ daemon_pc' = "retry_sleep"
          /\ UNCHANGED <<board, current_screen>>
       \/ /\ device = "Zoom65v3"
          /\ current_screen' \in
                IF FromStr(initial_screen) = ParseErr THEN {current_screen}
                ELSE {current_screen, initial_screen}
          /\ \/ /\ connection' = "Connected"
                /\ board' = "Zoom65v3"
                /\ daemon_pc' = "connected"
             \/ /\ connection' = "Reconnecting"
                /\ board' = NoBoard
                /\ daemon_pc' = "retry_sleep"
    /\ UNCHANGED <<daemonRest, cmd_rx, use_12hr_time>>

\* run_connected, select!: Some(cmd) = cmd_rx.recv(). Quit returns Ok(()) and
\* a failed device call returns Err: both leave daemon_loop's Ok arm, which
\* publishes Reconnecting and goes on to the retry sleep
DaemonCommand ==
    /\ daemon_pc = "connected"
    /\ cmd_rx # <<>>
    /\ cmd_rx' = Tail(cmd_rx)
    /\ LET c == Head(cmd_rx).c
           leave == /\ connection' = "Reconnecting"
                    /\ board' = NoBoard
                    /\ daemon_pc' = "retry_sleep"
           stay == UNCHANGED <<board, connection, daemon_pc>>
       IN  CASE c = "Quit" ->
                  leave /\ UNCHANGED <<current_screen, use_12hr_time>>
             [] c = "SetScreen" ->
                  \/ /\ stay
                     /\ current_screen' = Head(cmd_rx).id
                     /\ UNCHANGED use_12hr_time
                  \/ leave /\ UNCHANGED <<current_screen, use_12hr_time>>
             [] c = "Toggle12HrTime" ->
                  /\ use_12hr_time' = ~use_12hr_time
                  /\ UNCHANGED current_screen
                  /\ stay \/ leave
             [] OTHER ->
                  stay /\ UNCHANGED <<current_screen, use_12hr_time>>
    /\ UNCHANGED daemonRest

\* run_connected: the hourly time sync or the reactive stream fails
DaemonError ==
    /\ daemon_pc = "connected"
    /\ connection' = "Reconnecting"
    /\ board' = NoBoard
    /\ daemon_pc' = "retry_sleep"
    /\ UNCHANGED <<daemonRest, cmd_rx, current_screen, use_12hr_time>>

\* tokio::time::sleep(state.config.refresh.retry) ends
DaemonRetry ==
    /\ daemon_pc = "retry_sleep"
    /\ daemon_pc' = "select"
    /\ UNCHANGED <<daemonRest, cmd_rx, board, connection, current_screen,
                   use_12hr_time>>

(* ----------------------------- specification --------------------------- *)
\* steps of the loop that every menu shares
Loop ==
    \/ ClockTick \/ UiTick
    \/ RetryTick \/ Exec \/ EnvResolve \/ Complete
    \/ WeatherTick \/ SystemTick

\* the scheduler with the screen menu, the image picker and Quit
Next ==
    \/ UserClick(MenuEvents, MaxPending)
    \/ Loop \/ TimeTick \/ DialogDone
    \/ CmdQuit \/ CmdSetScreen \/ CmdUploadImage

Spec == Init /\ [][Next]_vars

\* the scheduler with a burst of clicks in the screen menu
NextBurst ==
    \/ UserClick(BurstEvents, MaxBurst)
    \/ Loop
    \/ CmdSetScreen

InitBurst == InitWith({"meletrix"}, {FALSE})

SpecBurst == InitBurst /\ [][NextBurst]_vars

\* the scheduler with the settings and the media menu
NextSettings ==
    \/ UserClick(SettingsEvents, MaxPending)
    \/ Loop \/ TimeTick \/ DialogDone
    \/ CmdUploadGif \/ CmdClearImage \/ CmdClearGif \/ CmdClearAllMedia
    \/ CmdToggleWeather \/ CmdToggleSystemInfo \/ CmdToggle12HrTime
    \/ CmdToggleFahrenheit \/ CmdReloadConfig

InitSettings == InitWith({"meletrix"}, {FALSE})

SpecSettings == InitSettings /\ [][NextSettings]_vars

\* the scheduler with reactive mode
NextReactive ==
    \/ UserClick(ReactiveEvents, MaxPending)
    \/ Loop
    \/ CmdQuit \/ CmdToggleReactive
    \/ ReactiveError \/ ReactiveKey \/ ReactiveIdle

InitReactive == InitWith({"meletrix", "reactive"}, {FALSE})

SpecReactive == InitReactive /\ [][NextReactive]_vars

\* one board session and the calls made on it
NextSession ==
    \/ Call \/ Write
    \/ ReadReply \/ ReadTimeout \/ ReadError
    \/ Unplug

InitSession ==
    /\ TrayInit({"meletrix"}, {FALSE})
    /\ board_kind = "Auto"
    /\ DetIdle
    /\ UtilIdle
    /\ sess \in SessionTypes
    /\ link \in {"answering", "silent"}
    /\ call = NoCall
    /\ pc = "idle"
    /\ idx = 0
    /\ io = "none"
    /\ frames = <<>>
    /\ progress = <<>>
    /\ ret = "none"

SpecSession == InitSession /\ [][NextSession]_vars

\* as_board on the devices that are present
NextDetect == AsBoard \/ DropBoard \/ Hotplug

InitDetect ==
    /\ TrayInit({"meletrix"}, {FALSE})
    /\ board_kind = "Auto"
    /\ SessIdle
    /\ UtilIdle
    /\ device_list \in DeviceLists
    /\ self_kind \in BoardKinds
    /\ opened = "none"

SpecDetect == InitDetect /\ [][NextDetect]_vars

\* the codec functions applied to sampled arguments
NextCodec ==
    \/ \E d \in ByteStrings : Apply("crc16", d, crc16(d))
    \/ \E d \in ByteStrings : Apply("checksum", d, checksum(d))
    \/ \E d \in ByteStrings, c \in {56, 252, 254}, st \in {2, 3} :
          Apply("build_packet", <<c, d, st>>, build_packet(c, d, st))
    \/ \E t \in Temperatures, checks \in BOOLEAN :
          Apply("encode_temperature", <<t, checks>>,
                encode_temperature(t, checks))
    \/ \E r \in Channels, g \in Channels, b \in Channels :
          Apply("from_rgb", <<r, g, b>>, from_rgb(r, g, b))
    \/ \E bg \in Colours, font \in Colours, id \in {0, 1} :
          Apply("theme", <<bg, font, id>>,
                theme(from_rgb(bg[1], bg[2], bg[3]),
                      from_rgb(font[1], font[2], font[3]), id))
    \/ \E t \in DateTimes, use_12hr \in BOOLEAN :
          Apply("set_time", <<t, use_12hr>>, set_time(t, use_12hr))
    \/ \E f \in Speeds : Apply("DumbFloat16::new", f, DumbFloat16_new(f))
    \/ \E f \in Speeds :
          Apply("DumbFloat16::try_from", f, DumbFloat16_try_from(f))
    \/ \E len \in PageLens : \E i \in Ordinals(len) :
          Apply("image_chunk", <<len, i>>, image_chunk(as_u16(i)))
    \/ Forget

InitCodec ==
    /\ TrayInit({"meletrix"}, {FALSE})
    /\ board_kind = "Auto"
    /\ SessIdle
    /\ DetIdle
    /\ UtilIdle

SpecCodec == InitCodec /\ [][NextCodec]_vars

\* instances of the daemon started and stopped in any order
NextLock ==
    \E p \in Procs :
        \/ OpenLockFile(p)
        \/ TryLock(p)
        \/ RemoveFile(p)
        \/ CloseFile(p)

InitLock ==
    /\ TrayInit({"meletrix"}, {FALSE})
    /\ board_kind = "Auto"
    /\ SessIdle
    /\ DetIdle
    /\ fn = "none"
    /\ arg = <<>>
    /\ out = <<>>
    /\ path_inode = 0
    /\ held_by = [n \in Inodes |-> 0]
    /\ proc_pc = [p \in Procs |-> "idle"]
    /\ proc_fd = [p \in Procs |-> 0]
    /\ daemon_pc = "none"

SpecLock == InitLock /\ [][NextLock]_vars

\* daemon_loop and the tray that sends it commands
NextDaemon ==
    \/ DaemonSend
    \/ DaemonRecv \/ DaemonWake \/ DaemonOpen
    \/ DaemonCommand \/ DaemonError \/ DaemonRetry

InitDaemon ==
    /\ TrayInit(InitialScreens, BOOLEAN)
    /\ SessIdle
    /\ DetIdle
    /\ fn = "none"
    /\ arg = <<>>
    /\ out = <<>>
    /\ path_inode = 0
    /\ held_by = <<>>
    /\ proc_pc = <<>>
    /\ proc_fd = <<>>
    /\ daemon_pc = "select"

SpecDaemon == InitDaemon /\ [][NextDaemon]_vars

\* the scheduler with the 12-hour switch of the settings menu
NextTime ==
    \/ UserClick(TimeEvents, MaxPending)
    \/ Loop \/ TimeTick
    \/ CmdToggle12HrTime

InitTime == InitWith({"meletrix"}, BOOLEAN)

SpecTime == InitTime /\ [][NextTime]_vars

\* a Zoom65v3 session and the set_screen calls made on it
NextScreen ==
    \/ ScreenCall \/ Write
    \/ ScreenReply \/ ReadError
    \/ Unplug

InitScreen == InitSession /\ sess = "Zoom65v3"

SpecScreen == InitScreen /\ [][NextScreen]_vars

\* the scheduler with SetScreen commands, one of them with an id that does
\* not parse
NextSetScreen ==
    \/ UserClick(SetScreenEvents, MaxPending)
    \/ Loop
    \/ CmdSetScreen

InitSetScreen == InitWith({"meletrix"}, {FALSE})

SpecSetScreen == InitSetScreen /\ [][NextSetScreen]_vars

\* the scheduler with the six board commands
NextBoardCmd ==
    \/ UserClick(BoardCmdEvents, MaxPending)
    \/ Loop \/ DialogDone
    \/ CmdSetScreen \/ CmdUploadImage \/ CmdUploadGif
    \/ CmdClearImage \/ CmdClearGif \/ CmdClearAllMedia

InitBoardCmd == InitWith({"meletrix"}, {FALSE})

SpecBoardCmd == InitBoardCmd /\ [][NextBoardCmd]_vars

\* the scheduler left alone by the user, with its timers delivered fairly, its
\* handlers run to their end and an open that succeeds in the end when it is
\* tried again and again on a board that is present
NextRecover ==
    \/ ClockTick
    \/ RetryTick \/ Exec \/ EnvResolve \/ Complete
    \/ WeatherTick \/ SystemTick \/ TimeTick

InitRecover == InitWith({"meletrix"}, BOOLEAN)

SpecRecover ==
    /\ InitRecover
    /\ [][NextRecover]_vars
    /\ WF_vars(ClockTick)
    /\ WF_vars(Exec)
    /\ WF_vars(EnvResolve)
    /\ WF_vars(Complete)
    /\ SF_vars(RetryTick /\ connection' = "Connected")

TypeOK ==
    /\ loop \in {"running", "quit", "panicked"}
    /\ board \in BoardTypes \cup {NoBoard}
    /\ local_b \in BoardTypes \cup {NoBoard}
    /\ connection \in {"Disconnected", "Connected", "Reconnecting"}
    /\ prev_conn \in {"None", "Disconnected", "Connected", "Reconnecting"}
    /\ retry_in \in 0..RetryPeriod
    /\ since \in 0..RetryPeriod
    /\ opsOpen \in 0..2
    /\ Pending <= MaxBurst
    /\ daemon_pc \in {"none", "select", "open", "connected", "retry_sleep",
                      "returned"}

(* -------------------------------- claims ------------------------------- *)
\* labels of the operations a command handler performs
CommandLabels ==
    {"cmd_screen", "cmd_upimg", "cmd_upgif", "cmd_climg", "cmd_clgif",
     "cmd_ca_img", "cmd_ca_gif", "cmd_time"}

\* a handler is inside a device operation
InDeviceOp == loop = "running" /\ plan # <<>> /\ res = "none"

\* C1: while a SetScreen is being applied to the board, no SetScreen with a
\* different id that was enqueued together with it is still waiting: of
\* several SetScreen commands enqueued before the loop drains the queue only
\* the last one reaches the device.
C1_OnlyLastSetScreenApplied ==
    \A i \in DOMAIN cmd_rx :
        ~(/\ InDeviceOp
          /\ Head(plan).lbl = "cmd_screen"
          /\ cmd_rx[i].c = "SetScreen"
          /\ cmd_rx[i].id # Head(plan).id)

\* C2: an open attempt made in state Reconnecting comes only after a full
\* retry interval has elapsed since the transition to Reconnecting.  (An open
\* attempt is the only step that re-arms retry_interval.)
C2_ReopenAfterFullInterval ==
    [][(connection = "Reconnecting" /\ retry_in' > retry_in)
          => since = RetryPeriod]_vars

\* C3 as stated: the connection state changes only along Disconnected ->
\* Connected, Connected -> Reconnecting and Reconnecting -> Disconnected.
C3_EdgesAsStated ==
    [][connection' # connection =>
          <<connection, connection'>> \in
              {<<"Disconnected", "Connected">>, <<"Connected", "Reconnecting">>,
               <<"Reconnecting", "Disconnected">>}]_vars

\* C3: the connection state changes only along Disconnected -> Connected
\* (successful open), Connected -> Reconnecting (session-fatal failure),
\* Reconnecting -> Connected (successful reopen) and Reconnecting ->
\* Disconnected (failed reopen); Connected never goes directly to
\* Disconnected.
C3_Edges ==
    [][connection' # connection =>
          <<connection, connection'>> \in
              {<<"Disconnected", "Connected">>, <<"Connected", "Reconnecting">>,
               <<"Reconnecting", "Connected">>,
               <<"Reconnecting", "Disconnected">>}]_vars

\* Connected has been entered directly from Reconnecting
C3_Witness == prev_conn = "Reconnecting" /\ connection = "Connected"

\* C4: when the device operation of a command fails (I/O or rejected
\* acknowledgement) the handler drops the board handle and publishes
\* Reconnecting.
C4_CommandFailureTearsDown ==
    [][(/\ plan # <<>>
        /\ Head(plan).lbl \in CommandLabels
        /\ res \in DeviceFailures)
          => (board' = NoBoard /\ connection' = "Reconnecting")]_vars

\* C5: when a scheduled operation (connect-time time sync, periodic weather,
\* system-info or time sync) fails in the HID transport, the handler drops the
\* board handle and publishes Reconnecting, whatever the error text.
C5_TransportFailureIsFatal ==
    [][(/\ plan # <<>>
        /\ Head(plan).lbl \in TickLabels \cup {"conn_time"}
        /\ res \in {"hid_dev", "hid_other"})
          => (board' = NoBoard /\ connection' = "Reconnecting")]_vars

\* C6: a logically local failure (capability missing, invalid screen id,
\* unmapped WMO code) is only reported: the handler keeps the handle, the
\* state stays Connected and no open is attempted.
C6_LocalFailureKeepsSession ==
    [][/\ (plan # <<>> /\ res \in LocalFailures)
            => /\ Handle # NoBoard
               /\ (IF board' # NoBoard THEN board' ELSE local_b') = Handle
               /\ connection = "Connected"
               /\ connection' = "Connected"
               /\ retry_in' <= retry_in
       /\ (/\ cmd_rx # <<>>
           /\ Len(cmd_rx') < Len(cmd_rx)
           /\ Head(cmd_rx).c = "SetScreen"
           /\ HasBoard
           /\ ~As(board, "screen"))
            => /\ board' = board
               /\ connection' = connection
               /\ retry_in' <= retry_in]_vars

\* a periodic sync of a connected board has failed locally
C6_Witness ==
    /\ plan # <<>>
    /\ Head(plan).lbl \in TickLabels
    /\ res \in {"unknown_wmo", "no_system_info"}
    /\ HasBoard
    /\ connection = "Connected"

\* C7: the loop ends only by dequeuing Quit: whenever it stops running, the
\* command at the head of the channel is Quit and the loop has returned.
C7_EndsOnlyByQuit ==
    [][(loop = "running" /\ loop' # "running")
          => (cmd_rx # <<>> /\ Head(cmd_rx).c = "Quit" /\ loop' = "quit")]_vars

\* C8: at most one device operation is in flight at any time, and it belongs
\* to the one handler that is executing.
C8_OneOperationInFlight ==
    /\ opsOpen <= 1
    /\ opsOpen = 1 => plan # <<>>

\* a device operation is in flight while a command waits and the retry timer
\* is ready
C8_Witness ==
    /\ InDeviceOp
    /\ opsOpen = 1
    /\ cmd_rx # <<>>
    /\ retry_in = 0

\* C9: while a device operation is in progress and a command is waiting in
\* the channel, the loop is polling select! and can take the command.
C9_IntakeDuringDeviceIO ==
    (InDeviceOp /\ cmd_rx # <<>>) => LoopIdle

\* C10: on entering Connected the handler has the default screen (if the
\* board has the screen capability and reactive mode is not configured) and
\* then the time sync to do, does them in that order, installs the board only
\* after the time sync, and no command is dispatched before that.
C10_ConnectSequence ==
    [][/\ (connection # "Connected" /\ connection' = "Connected")
            => /\ board' = NoBoard
               /\ plan' # <<>>
               /\ plan'[Len(plan')].op = "apply_time"
               /\ (As(local_b', "screen") /\ initial_screen # "reactive")
                     => /\ Len(plan') = 2
                        /\ plan'[1].op = "set_screen"
                        /\ plan'[1].id = initial_screen
       /\ (connection = "Connected" /\ board = NoBoard)
            => /\ plan # <<>>
               /\ plan' \in {plan, Tail(plan)}
               /\ Len(cmd_rx') >= Len(cmd_rx)
               /\ board' # NoBoard => Head(plan).op = "apply_time"]_vars

\* the default screen is being applied on a new connection while a command
\* is queued
C10_Witness ==
    /\ connection = "Connected"
    /\ board = NoBoard
    /\ InDeviceOp
    /\ Head(plan).lbl = "conn_screen"
    /\ cmd_rx # <<>>

Priority(devs) ==
    IF \E i \in DOMAIN devs : matches(devs[i], Info(ALL_BOARDS[1]))
    THEN ALL_BOARDS[1]
    ELSE IF \E i \in DOMAIN devs : matches(devs[i], Info(ALL_BOARDS[2]))
    THEN ALL_BOARDS[2]
    ELSE NoBoard

\* C12: the board as_board(Auto) opens is the first one in the declared order
\* of the descriptors that matches any present device, whatever the order in
\* which the devices are enumerated.
C12_HighestPriorityOpened ==
    (self_kind = "Auto" /\ opened \in BoardTypes)
        => opened = Priority(device_list)

CanonAt(b, n, k) ==
    IF b = "Zoom65v3"
    THEN CASE k = 1 -> <<"upload_start", 0>>
           [] k = 2 -> <<"upload_length", 0>>
           [] k = n + 3 -> <<"upload_end", 0>>
           [] k = n + 4 -> <<"reset_screen", 0>>
           [] OTHER -> <<"chunk", k - 3>>
    ELSE IF k = n + 1 THEN <<"image_end", 0>> ELSE <<"image_chunk", k - 1>>

CanonLen(b, n) == IF b = "Zoom65v3" THEN n + 4 ELSE n + 1

\* C14: an upload starts with no frame written; every step of it that writes
\* appends to the frames written the canonical frame of that position, so
\* the frames are always a prefix of the canonical sequence and none is sent
\* twice; a failed write returns the Hid error and a rejected
\* acknowledgement returns CommandFailed, and with the return the upload is
\* over; Ok is returned only with the full sequence written.
C14_FramesPrefixOfCanonical ==
    [][/\ (pc \notin FramePcs /\ pc' \in FramePcs) => frames' = <<>>
       /\ (call.op \in UploadOps /\ pc \in FramePcs) =>
            LET size == IF sess = "Zoom65v3" THEN CHUNK_65 ELSE CHUNK_SIZE
                n == chunks(call.len, size)
                k == Len(frames')
            IN  /\ k <= CanonLen(sess, n)
                /\ frames' # frames =>
                      /\ frames' = Append(frames, frames'[k])
                      /\ <<frames'[k].cmd, frames'[k].i>> = CanonAt(sess, n, k)
                /\ ret' # "none" => pc' \notin FramePcs
                /\ ret' = "Ok" => k = CanonLen(sess, n)
                /\ (io = "none" /\ frames' = frames /\ link' = link)
                      => ret' = "Hid"
                /\ (io = "reading" /\ ret' \notin {"none", "Ok", "panic"})
                      => ret' \in {"CommandFailed", "Hid"}
      ]_vars

\* a Zoom65 V3 upload was rejected at its second chunk and returned
C14_Witness ==
    /\ sess = "Zoom65v3"
    /\ call.op = "upload_gif"
    /\ ret = "CommandFailed"
    /\ Len(frames) = 4
    /\ chunks(call.len, CHUNK_65) = 3

\* C15: in a Tiga family upload of n 16-byte chunks the callback arguments are
\* 0, 1, 2, ... in this order without gaps, callback i precedes the write of
\* chunk i, the callback with argument n follows the terminator frame, and a
\* call that returned Ok has made exactly the n + 1 callbacks 0 .. n.
C15_TigaProgressCalls ==
    (sess \in TigaFamily /\ call.op \in UploadOps) =>
        LET n == chunks(call.len, CHUNK_SIZE)
        IN  /\ \A k \in DOMAIN progress : progress[k] = k - 1
            /\ Len(progress) <= n + 1
            /\ Len(frames) <= n => Len(frames) <= Len(progress)
            /\ Len(progress) = n + 1 =>
                  (Len(frames) = n + 1 /\ frames[n + 1].cmd = "image_end")
            /\ ret = "Ok" => Len(progress) = n + 1

\* a Tiga family upload of three chunks returned Ok
C15_Witness ==
    /\ sess \in TigaFamily
    /\ call.op \in UploadOps
    /\ ret = "Ok"
    /\ chunks(call.len, CHUNK_SIZE) = 3
    /\ progress = <<0, 1, 2, 3>>

\* C16: a Zoom65 V3 image or GIF upload of n 24-byte chunks that returned Ok
\* has invoked the progress callback exactly n + 1 times.
C16_Zoom65ProgressCalls ==
    (sess = "Zoom65v3" /\ call.op \in UploadOps /\ ret = "Ok")
        => Len(progress) = chunks(call.len, CHUNK_65) + 1

\* C17: the chunk frame a Zoom65 V3 upload has just written carries its chunk
\* unpadded, except the final chunk of a GIF whose length is not a multiple
\* of 24, which is padded to the next multiple of 4 data bytes; the length
\* field is 2 + padded data length + 4; the checksum covers a multiple of 4
\* bytes and ends inside the 33-byte frame; the announced length is the
\* buffer's length and the progress index is the chunk's index.
C17_FinalGifChunkPadded ==
    (sess = "Zoom65v3" /\ call.op \in UploadOps /\ frames # <<>>) =>
        LET f == frames[Len(frames)]
            n == chunks(call.len, CHUNK_65)
            rest == call.len - CHUNK_65 * f.i
            cl == IF rest < CHUNK_65 THEN rest ELSE CHUNK_65
            padded == f.offset - 5
            final == f.i = n - 1
            gif == call.op = "upload_gif"
        IN  /\ Len(frames) >= 2 => frames[2].len = call.len
            /\ f.cmd = "chunk" =>
                  /\ f.data = cl
                  /\ padded = (IF gif /\ final THEN ((cl + 3) \div 4) * 4 ELSE cl)
                  /\ padded # cl => (gif /\ final /\ call.len % CHUNK_65 # 0)
                  /\ f.len = 2 + padded + 4
                  /\ crc_span(f.offset) % 4 = 0
                  /\ f.offset + 4 <= FRAME_LEN
                  /\ Len(progress) > f.i /\ progress[f.i + 1] = f.i
                  /\ f.i < n

\* the second, final chunk of a 25-byte GIF was written: one byte padded to 4
C17_Witness ==
    /\ sess = "Zoom65v3"
    /\ call = [op |-> "upload_gif", len |-> 25]
    /\ frames # <<>>
    /\ frames[Len(frames)].cmd = "chunk"
    /\ frames[Len(frames)].i = 1
    /\ frames[Len(frames)].data = 1
    /\ frames[Len(frames)].len = 10

\* C18: a Zoom65 V3 upload_image whose buffer is not 36300 bytes long and an
\* upload_gif of 1013808 bytes or more have returned MediaTooLarge with no
\* frame written and no callback made, and no other upload returns
\* MediaTooLarge.
C18_TooLargeBeforeAnyByte ==
    (sess = "Zoom65v3" /\ call.op \in UploadOps) =>
        LET outside == \/ call.op = "upload_image" /\ call.len # IMAGE_LEN
                       \/ call.op = "upload_gif" /\ call.len >= GIF_LIMIT
        IN  /\ outside => (ret = "MediaTooLarge" /\ frames = <<>>
                           /\ progress = <<>> /\ io = "none")
            /\ ret = "MediaTooLarge" => outside

\* a GIF of exactly 1013808 bytes was refused
C18_Witness ==
    /\ sess = "Zoom65v3"
    /\ call = [op |-> "upload_gif", len |-> GIF_LIMIT]
    /\ ret = "MediaTooLarge"
    /\ frames = <<>>

\* the steps with which the read of execute returns
ReadReturns == ReadReply \/ ReadTimeout \/ ReadError

\* C19: whenever execute has written its frame and is reading, the read can
\* return: through a reply, through the failure of the device, or through
\* its timeout, so that a silent device does not hold the call forever.
C19_ExecuteCompletes == io = "reading" => ENABLED ReadReturns

\* C20: a Zoom65 V3 method that has read a reply other than the success
\* acknowledgement returns CommandFailed; the process is never aborted.
C20_BadAckIsCommandFailed ==
    /\ ret # "panic"
    /\ pc # "aborted"
    /\ (sess = "Zoom65v3" /\ link = "answering" /\ ret \notin {"none", "Ok", "MediaTooLarge"})
          => ret = "CommandFailed"

\* C21: build_packet never silently truncates: a packet it returns carries
\* every payload byte, has its checksum byte inside the frame at offset
\* 12 + len, and has a length field equal to the number of payload bytes
\* present (a payload of more than 19 bytes would have to be rejected).
C21_NeverTruncates ==
    fn = "build_packet" =>
        LET payload == arg[2] IN
        /\ \A i \in 1..Len(payload) : 11 + i <= 30 /\ out[11 + i] = payload[i]
        /\ 12 + Len(payload) <= 31
        /\ out[11] = Len(payload)

\* C22: in every Tiga-family frame the little-endian CRC16 of bytes 6-7 is
\* the CRC-16/CCITT-FALSE of the bytes preceding the CRC field, bytes 0-5.
C22_CrcOverPrecedingBytes ==
    fn = "build_packet" =>
        out[6] + 256 * out[7] = crc16([k \in 1..6 |-> out[k - 1]])

\* C23: for every command and payload of 0..19 bytes the byte at offset
\* 12 + len is the low 8 bits of (sum of the bytes from offset 9) XOR 0xFF,
\* so the bytes from offset 9 through the checksum sum to 0xFF modulo 256.
C23_AdditiveChecksum ==
    fn = "build_packet" /\ Len(arg[2]) <= 19 =>
        LET len == Len(arg[2])
            RECURSIVE total(_)
            total(i) == IF i > 11 + len THEN 0 ELSE out[i] + total(i + 1)
        IN  /\ out[9] = arg[1]
            /\ out[12 + len] = Xor(total(9) % 256, 255)
            /\ (total(9) + out[12 + len]) % 256 = 255

C23_Witness ==
    /\ fn = "build_packet"
    /\ Len(arg[2]) = 19
    /\ arg[2][1] = 255
    /\ arg[1] = 56
    /\ out[31] = 199

\* C24: crc16 is CRC-16/CCITT-FALSE for every input: the register starts at
\* 0xFFFF, each message bit, most significant first, is fed back through the
\* polynomial 0x1021, and nothing is XORed at the end; the ASCII digits
\* "123456789" give 0x29B1.
C24_Crc16IsCcittFalse ==
    fn = "crc16" =>
        LET RECURSIVE feed(_, _, _)
            feed(r, byte, j) ==
                IF j = 8 THEN r
                ELSE IF (r \div 32768 + (byte \div (2 ^ (7 - j)))) % 2 = 1
                     THEN feed(Xor((r * 2) % 65536, 4129), byte, j + 1)
                     ELSE feed((r * 2) % 65536, byte, j + 1)
            RECURSIVE reg(_, _)
            reg(r, k) ==
                IF r <= 65535 /\ k <= Len(arg)
                THEN reg(feed(r, arg[k], 0), k + 1)
                ELSE r
        IN  /\ out = reg(65535, 1)
            /\ arg = <<49, 50, 51, 52, 53, 54, 55, 56, 57>> => out = 10673

C24_Witness ==
    /\ fn = "crc16"
    /\ arg = <<49, 50, 51, 52, 53, 54, 55, 56, 57>>
    /\ out = 10673

\* C25: the Zoom65 V3 media checksum is the 32-bit CRC with polynomial
\* 0x04C11DB7 and initial value 0xFFFFFFFF, most significant bit first,
\* without final XOR, as 4 big-endian bytes; the 28-byte vector of
\* checksum_test gives [94, 148, 189, 206].
C25_ChecksumIsCrc32 ==
    fn = "checksum" =>
        LET RECURSIVE feed(_, _, _, _)
            feed(hi, lo, byte, j) ==
                IF j = 8 THEN <<hi, lo>>
                ELSE LET h == ((hi * 2) % 65536) + (lo \div 32768)
                         l == (lo * 2) % 65536
                     IN  IF (hi \div 32768 + (byte \div (2 ^ (7 - j)))) % 2 = 1
                         THEN feed(Xor(h, 1217), Xor(l, 7607), byte, j + 1)
                         ELSE feed(h, l, byte, j + 1)
            RECURSIVE reg(_, _)
            reg(r, k) ==
                IF r[1] <= 65535 /\ k <= Len(arg)
                THEN reg(feed(r[1], r[2], arg[k], 0), k + 1)
                ELSE <<r[1] \div 256, r[1] % 256, r[2] \div 256, r[2] % 256>>
        IN  /\ out = reg(<<65535, 65535>>, 1)
            /\ arg = <<0, 0, 71, 73, 70, 56, 57, 97, 111, 0, 111, 0, 247, 0>>
                         \o [i \in 1..14 |-> 0]
                 => out = <<94, 148, 189, 206>>

C25_Witness ==
    /\ fn = "checksum"
    /\ Len(arg) = 28
    /\ arg[3] = 71
    /\ out = <<94, 148, 189, 206>>

\* C26: for every signed 16-bit temperature t, encode_temperature(t) returns
\* a value whose bits 0-14 are |t| * 10 and whose bit 15 is set exactly when
\* t is negative.
C26_EncodeTemperature ==
    fn = "encode_temperature" =>
        LET t == arg[1]
            abs == IF t < 0 THEN -t ELSE t
        IN  /\ ~out.panic
            /\ out.value % 32768 = abs * 10
            /\ out.value >= 32768 <=> t < 0

\* C27: for all 8-bit r, g, b from_rgb returns
\* ((r >> 3) << 11) | ((g >> 2) << 5) | (b >> 3), which is 0xF800 for red,
\* 0x07E0 for green and 0x001F for blue, and the theme frame carries the
\* background and the font colour as two big-endian bytes each.
C27_Rgb565 ==
    LET RECURSIVE Or(_, _)
        Or(a, b) ==
            IF a = 0 THEN b
            ELSE IF b = 0 THEN a
            ELSE 2 * Or(a \div 2, b \div 2)
                 + (IF a % 2 = 1 \/ b % 2 = 1 THEN 1 ELSE 0)
        rgb565(c) ==
            Or(Or((c[1] \div 8) * 2048, (c[2] \div 4) * 32), c[3] \div 8)
    IN  /\ fn = "from_rgb" =>
              /\ out = rgb565(arg)
              /\ arg = <<255, 0, 0>> => out = 63488
              /\ arg = <<0, 255, 0>> => out = 2016
              /\ arg = <<0, 0, 255>> => out = 31
        /\ fn = "theme" =>
              /\ out[9] = 253
              /\ out[11] = 6
              /\ out[12] = 0
              /\ out[13] * 256 + out[14] = rgb565(arg[1])
              /\ out[15] * 256 + out[16] = rgb565(arg[2])
              /\ out[17] = arg[3]
              /\ arg[1] = <<255, 0, 0>> => out[13] = 248 /\ out[14] = 0

C27_Witness ==
    /\ fn = "theme"
    /\ arg[1] = <<0, 255, 0>>
    /\ arg[2] = <<18, 52, 86>>
    /\ out[13] = 7
    /\ out[14] = 224
    /\ out[15] = 17
    /\ out[16] = 170

\* C28: for any date-time the SetTime frame has command 0x38, sub-type 0x03
\* and the payload [0, 1, year high, year low, month, day, hour 0-23
\* whatever the 12-hour flag, minute, second, day of week from Sunday = 0];
\* 2024-01-01T00:00:00 gives the year bytes 0x07, 0xE8.
C28_SetTimeFrame ==
    fn = "set_time" =>
        LET t == arg[1]
            m == IF t.month <= 2 THEN t.month + 12 ELSE t.month
            y == IF t.month <= 2 THEN t.year - 1 ELSE t.year
            zeller == (t.day + ((13 * (m + 1)) \div 5) + (y % 100)
                       + ((y % 100) \div 4) + ((y \div 100) \div 4)
                       + 5 * (y \div 100)) % 7
        IN  /\ out[0] = 28
            /\ out[1] = 3
            /\ out[9] = 56
            /\ out[11] = 10
            /\ [i \in 1..10 |-> out[11 + i]] =
                   <<0, 1, t.year \div 256, t.year % 256, t.month, t.day,
                     t.hour, t.minute, t.second, (zeller + 6) % 7>>
            /\ (t.year = 2024 /\ t.month = 1 /\ t.day = 1 /\ t.hour = 0
                    /\ t.minute = 0 /\ t.second = 0) =>
                   [i \in 1..10 |-> out[11 + i]] =
                       <<0, 1, 7, 232, 1, 1, 0, 0, 0, 1>>

C28_Witness ==
    /\ fn = "set_time"
    /\ arg[2]
    /\ arg[1].year = 2024
    /\ arg[1].hour = 13
    /\ out[14] = 7
    /\ out[15] = 232
    /\ out[18] = 13

\* C29: DumbFloat16::new gives 0x0000 for every input at or below 0, 0xFFFF
\* for every input at or above 655.34, and h for h hundredths with
\* 0 < h < 65534; the 0.005 tolerance puts an in-range input between two
\* hundredths on the nearer one.
C29_DumbFloat16 ==
    fn = "DumbFloat16::new" =>
        /\ arg <= 0 => out = 0
        /\ arg >= 65534000 => out = 65535
        /\ (0 < arg /\ arg < 65534000 /\ arg % 1000 = 0) => out = arg \div 1000
        /\ (0 < arg /\ arg < MAX_F32) => out * 1000 - arg \in -500..500

C29_Witness ==
    /\ fn = "DumbFloat16::new"
    /\ arg = 43690000
    /\ out = 43690

\* C30: the process lock gives mutual exclusion: in every interleaving of
\* the open, try_lock, remove and close steps of the processes at most one
\* process at a time is running with a successfully acquired Lock.
C30_MutualExclusion ==
    \A p \in DOMAIN proc_pc : \A q \in DOMAIN proc_pc :
        proc_pc[p] = "running" /\ proc_pc[q] = "running" => p = q

\* C31: daemon_loop terminates on Quit in every connection state: the step
\* that dequeues Quit, while disconnected or inside the connected loop, makes
\* daemon_loop return without another state change, and a daemon_loop that
\* has returned sleeps and opens no more.
C31_QuitTerminates ==
    [][/\ (/\ daemon_pc \in {"select", "connected"}
           /\ cmd_rx # <<>>
           /\ Head(cmd_rx).c = "Quit"
           /\ cmd_rx' = Tail(cmd_rx))
            => /\ daemon_pc' = "returned"
               /\ connection' = connection
               /\ current_screen' = current_screen
       /\ daemon_pc = "returned" => daemon_pc' = "returned"]_vars

\* C32: while Connected, the hourly time re-sync timer is armed whenever
\* 12-hour mode is enabled, also when Toggle12HrTime switched it on after the
\* board had connected.
C32_TimerArmedIn12HrMode ==
    (LoopIdle /\ connection = "Connected" /\ HasBoard /\ use_12hr_time)
        => time_interval

\* C33: Zoom65v3::set_screen(position) with directions (y, x) sends one
\* reset_screen, then |y| screen_up (y < 0) or screen_down (y > 0), then x
\* screen_switch, in this order: what it has sent is at every moment a prefix
\* of that sequence, all of it (1 + |y| + x frames) once it returned Ok, and
\* after a failed command it sends nothing more.
C33_SetScreenSequence ==
    [][call'.op = "set_screen" =>
         LET d == to_directions(FromStr(call'.id))
             want == IF FromStr(call'.id) = ParseErr THEN <<>>
                     ELSE <<"reset_screen">>
                          \o [k \in 1..Abs(d[1]) |->
                                IF d[1] < 0 THEN "screen_up" ELSE "screen_down"]
                          \o [k \in 1..d[2] |-> "screen_switch"]
         IN  /\ Len(frames') <= Len(want)
             /\ \A k \in DOMAIN frames' : frames'[k].cmd = want[k]
             /\ ret' = "Ok" => Len(frames') = Len(want)
             /\ (pc = "done" /\ ret # "Ok") => Len(frames') <= Len(frames)]_vars

\* set_screen("download") returned Ok after reset, up, up, switch, switch
C33_Witness ==
    /\ call.op = "set_screen"
    /\ call.id = "download"
    /\ ret = "Ok"
    /\ [k \in DOMAIN frames |-> frames[k].cmd]
         = <<"reset_screen", "screen_up", "screen_up", "screen_switch",
             "screen_switch">>

\* C34: in reactive mode is_reactive_running is true exactly when the board
\* has been switched from the image to the GIF screen, also after a
\* disconnect and reconnect: when the set_screen("image") of a (re)connection
\* has succeeded, the board shows the image and the flag is false.
C34_FlagTracksScreen ==
    [][(/\ plan # <<>>
        /\ Head(plan).lbl = "conn_reactive"
        /\ res = "ok"
        /\ plan' = Tail(plan))
          => ~is_reactive_running']_vars

\* C35: recovery: whenever the state is Disconnected or Reconnecting, the
\* loop runs and the board is one as_board accepts, the scheduler reaches
\* Connected again, with no command sent to it.
C35_Recovery ==
    []((/\ connection \in {"Disconnected", "Reconnecting"}
        /\ loop = "running"
        /\ board_kind \in {"Auto", device})
          => <>(connection = "Connected"))

\* the scheduler is Connected again after a session-fatal failure
C35_Witness ==
    /\ prev_conn = "Reconnecting"
    /\ connection = "Connected"
    /\ board # NoBoard

\* C36: at every iteration of the scheduler loop a board handle is held
\* exactly when connection is Connected, the loop's handle and the handle of
\* a connection in progress never exist together, and an open (the step that
\* re-arms retry_interval) is attempted only while no handle is held: at most
\* one device handle is open.
C36_OneHandle ==
    /\ [](/\ LoopIdle => (HasBoard <=> connection = "Connected")
          /\ ~(board # NoBoard /\ local_b # NoBoard))
    /\ [][retry_in' > retry_in => (board = NoBoard /\ local_b = NoBoard)]_vars

\* the loop is about to try an open after a disconnect, holding no handle
C36_Witness ==
    /\ LoopIdle
    /\ connection = "Reconnecting"
    /\ prev_conn = "Connected"
    /\ board = NoBoard
    /\ retry_in = 0

\* the commands that act on the board
BoardCmds ==
    {"SetScreen", "UploadImage", "UploadGif", "ClearImage", "ClearGif",
     "ClearAllMedia"}

C39_PageIndexIsOrdinal ==
    fn = "image_chunk" =>
        /\ out[2] * 256 + out[3] = arg[2]
        /\ out[2] * 256 + out[3] # 65535

\* C40: DumbFloat16::try_from(v) returns Ok with the encoded value exactly
\* when v lies inside [0, 655.34], and Err for every value outside.
C40_TryFromRange ==
    fn = "DumbFloat16::try_from" =>
        IF 0 <= arg /\ arg <= 65534000
        THEN out = <<"Ok", DumbFloat16_new(arg)>>
        ELSE out = <<"Err">>

====
